---- MODULE Spec2Model ----
(***************************************************************************)
(* Control plane of agentic-content-scout: the Orchestrator and its outer  *)
(* graph (core/graph.py), the handoff tools (tools/handoff_tools.py), the  *)
(* tool-call loop of the supervisor and the topic manager (agents/base.py),*)
(* the Content Scout subgraph (agents/content_scout.py) and the topic      *)
(* store operations (tools/topic_tools.py, tools/content_tools.py,         *)
(* utils/briefs.py).                                                       *)
(*                                                                         *)
(* Strings that the code inspects character by character (topic slugs and  *)
(* the user's reply to a question) are sequences of one-character strings. *)
(* The language model, the search service and the user are the             *)
(* environment: their outputs are drawn from small sets.                   *)
(***************************************************************************)
EXTENDS Integers, Sequences, FiniteSets, TLC

\* ------------------------------------------------------------------ bounds
MaxTurns == 3
MaxRounds == 1
MaxHops == 4
MaxBatch == 2
MaxFound == 1

\* ------------------------------------------------------------- universes
SlugA == <<"a">>
SlugAB == <<"a", "b">>
SlugZ == <<"z">>
NoHint == <<>>
Slugs == {SlugA, SlugAB}
Hints == {NoHint, SlugA}
LLMSlugs == {SlugA, SlugAB, SlugZ}
Tasks == {"t1", "t2"}
Urls == {"u1", "u2"}
Titles == {"T"}
Responses ==
  {<<"Y", "e", "s">>, <<"y", " ">>, <<"b">>, <<"A", "b">>, <<"z">>, <<"n", "o">>}

\* ------------------------------------------------------ string functions
LowerChar(c) ==
  CASE c = "Y" -> "y"
    [] c = "A" -> "a"
    [] c = "B" -> "b"
    [] OTHER -> c

Lower(s) == [i \in 1..Len(s) |-> LowerChar(s[i])]

RECURSIVE LStrip(_)
LStrip(s) == IF s # <<>> /\ Head(s) = " " THEN LStrip(Tail(s)) ELSE s

RECURSIVE RStrip(_)
RStrip(s) ==
  IF s # <<>> /\ s[Len(s)] = " " THEN RStrip(SubSeq(s, 1, Len(s) - 1)) ELSE s

Strip(s) == RStrip(LStrip(s))

\* Python's `x in y` on strings
IsSubstring(x, y) ==
  \E i \in 0..(Len(y) - Len(x)) : SubSeq(y, i + 1, i + Len(x)) = x

CharRank(c) ==
  CASE c = " " -> 0
    [] c = "a" -> 1
    [] c = "b" -> 2
    [] c = "z" -> 3
    [] OTHER -> 4

\* Python's string order, as used by sorted()
RECURSIVE StrLess(_, _)
StrLess(x, y) ==
  IF x = <<>> THEN y # <<>>
  ELSE IF y = <<>> THEN FALSE
  ELSE IF Head(x) = Head(y) THEN StrLess(Tail(x), Tail(y))
  ELSE CharRank(Head(x)) < CharRank(Head(y))

RECURSIVE SortedSeq(_)
SortedSeq(S) ==
  IF S = {} THEN <<>>
  ELSE LET m == CHOOSE x \in S : \A y \in S \ {x} : StrLess(x, y)
       IN <<m>> \o SortedSeq(S \ {m})

Range(s) == {s[i] : i \in 1..Len(s)}

Last(s) == s[Len(s)]

Count(seq, x) == Cardinality({i \in 1..Len(seq) : seq[i] = x})

\* the sequences over S of length up to n
RECURSIVE SeqsUpTo(_, _)
SeqsUpTo(S, n) ==
  IF n = 0 THEN {<<>>}
  ELSE LET shorter == SeqsUpTo(S, n - 1)
       IN shorter \cup {Append(q, x) : q \in {r \in shorter : Len(r) = n - 1},
                                       x \in S}

\* ----------------------------------------------------------- topic store
\* A saved link; the date stamp is the same for every save of one day and
\* is left out.
Link(url, title) == [url |-> url, title |-> title]

UrlsOf(list) == {list[i].url : i \in 1..Len(list)}

NoDuplicateUrls(list) ==
  \A i, j \in 1..Len(list) : list[i].url = list[j].url => i = j

\* the loop with the new entries put in front of the list
RECURSIVE AppendNew_front(_, _, _)
AppendNew_front(existing, existing_urls, recommended) ==
  IF recommended = <<>> THEN existing
  ELSE LET article == Head(recommended)
       IN IF article.url # "" /\ article.url \notin existing_urls
          THEN AppendNew_front(<<Link(article.url, article.title)>> \o existing,
                               existing_urls, Tail(recommended))
          ELSE AppendNew_front(existing, existing_urls, Tail(recommended))

\* content_scout._save_articles, the loop over the recommendations:
\* existing_urls is computed once, before the loop.
RECURSIVE AppendNew(_, _, _)
AppendNew(existing, existing_urls, recommended) ==
  IF recommended = <<>> THEN existing
  ELSE LET article == Head(recommended)
       IN IF article.url # "" /\ article.url \notin existing_urls
          THEN AppendNew(Append(existing, Link(article.url, article.title)),
                         existing_urls, Tail(recommended))
          ELSE AppendNew(existing, existing_urls, Tail(recommended))

SaveArticlesList(existing, recommended) ==
  AppendNew(existing, UrlsOf(existing), recommended)

\* content_tools.save_article on an existing topic directory
SaveArticleList(existing, url, title) ==
  IF \E i \in 1..Len(existing) : existing[i].url = url
  THEN existing
  ELSE Append(existing, Link(url, title))

\* briefs.save_brief: as _save_articles, without the empty-url test
RECURSIVE BriefAppend(_, _, _)
BriefAppend(existing, existing_urls, articles) ==
  IF articles = <<>> THEN existing
  ELSE LET article == Head(articles)
       IN IF article.url \notin existing_urls
          THEN BriefAppend(Append(existing, Link(article.url, article.title)),
                           existing_urls, Tail(articles))
          ELSE BriefAppend(existing, existing_urls, Tail(articles))

SaveBriefList(existing, articles) ==
  BriefAppend(existing, UrlsOf(existing), articles)

\* content_scout._get_available_topics
AvailableTopics(ts) == SortedSeq(ts)

\* ------------------------------------------------------------- messages
NoCalls == <<>>
HumanMessage(id) ==
  [id |-> id, type |-> "human", calls |-> NoCalls, content |-> "user"]
AIMessage(id, calls, content) ==
  [id |-> id, type |-> "ai", calls |-> calls, content |-> content]
ToolMessage(id, content) ==
  [id |-> id, type |-> "tool", calls |-> NoCalls, content |-> content]

\* langgraph's add_messages reducer: a message whose id is already stored
\* replaces the stored one in place, any other message is appended.
RECURSIVE AddMessages(_, _)
AddMessages(left, right) ==
  IF right = <<>> THEN left
  ELSE LET m == Head(right)
           merged ==
             IF \E i \in 1..Len(left) : left[i].id = m.id
             THEN [i \in 1..Len(left) |->
                     IF left[i].id = m.id THEN m ELSE left[i]]
             ELSE Append(left, m)
       IN AddMessages(merged, Tail(right))

\* A message id that no stored message and no message of the running loop
\* carries
FreshId(stored, loop) ==
  LET used == {stored[i].id : i \in 1..Len(stored)}
              \cup {loop[i].id : i \in 1..Len(loop)}
  IN IF used = {} THEN 1
     ELSE 1 + (CHOOSE m \in used : \A n \in used : n <= m)

\* base.py 15
MAX_MESSAGES == 16

\* Python's msgs[-n:]
LastN(msgs, n) ==
  IF Len(msgs) <= n THEN msgs ELSE SubSeq(msgs, Len(msgs) - n + 1, Len(msgs))

\* base.py 18-28: the update trim_messages returns (none: no messages)
trim_messages(msgs) ==
  IF Len(msgs) <= MAX_MESSAGES THEN <<>> ELSE LastN(msgs, MAX_MESSAGES)

\* The messages of the loop after the before_model hook: the update of
\* trim_messages goes through the add_messages reducer of AgentState, as
\* every update of the messages channel does.
BeforeModel(msgs) ==
  AddMessages(msgs, trim_messages(msgs))

\* should_continue with the test of tool_calls inverted
should_continue_inverted(msgs) ==
  IF msgs = <<>> THEN "__end__"
  ELSE IF Last(msgs).type = "ai" /\ Last(msgs).calls # NoCalls
       THEN "__end__"
       ELSE "agent"

\* graph.should_continue
should_continue(msgs) ==
  IF msgs = <<>> THEN "__end__"
  ELSE IF Last(msgs).type = "ai" /\ Last(msgs).calls = NoCalls
       THEN "__end__"
       ELSE "agent"

\* graph.get_agents: the registry
Agents == {"supervisor", "topic_manager", "content_scout"}
Unset == "unset"

\* agent_node with a default that is no key of the registry
ActiveWorker_router(a) == IF a = Unset THEN "router" ELSE a

\* graph.agent_node: state.get("active_agent", "supervisor")
ActiveWorker(a) == IF a = Unset THEN "supervisor" ELSE a

\* topic_context payloads as sets of key/value pairs
EmptyContext == {}
TopicsContext(task) == {<<"task", task>>}
ScoutContext(task, slug) == {<<"task", task>>, <<"topic_slug", slug>>}

\* dict.get(key, default) on a topic_context
ContextGet(ctx, key, default) ==
  IF \E kv \in ctx : kv[1] = key
  THEN (CHOOSE kv \in ctx : kv[1] = key)[2]
  ELSE default

\* None, and "no resume value pending"
Null == <<"#None">>
NoResume == <<"#none">>

\* ----------------------------------------------------------------- state
VARIABLES
  topics,         \* slugs whose directory holds preferences.md
  dirs,           \* slugs whose directory exists
  links,          \* links.yaml of every slug, as a list of links
  messages,       \* MultiAgentState.messages (checkpointed)
  active_agent,   \* MultiAgentState.active_agent (checkpointed)
  topic_context,  \* MultiAgentState.topic_context (checkpointed)
  interrupted,    \* Orchestrator._interrupted
  pc,             \* where control is
  passedAs,       \* how the current chat call entered the graph
  lastResult,     \* how the previous chat call ended
  resumeVal,      \* resume value not yet returned by an interrupt() call
  parked,         \* pending interrupt of the thread's checkpoint
  question,       \* question of the last interrupt
  inner,          \* messages of the tool-call loop (its own checkpoint)
  scout,          \* ScoutState and the subgraph's next node
  invoked,        \* worker looked up by the last agent_node call
  turn, hops, rounds,  \* chat calls so far, dispatches and model calls
  trace           \* events of the current Content Scout run

store == <<topics, dirs, links>>
outer == <<messages, active_agent, topic_context>>
orch == <<interrupted, passedAs, lastResult>>
vars == <<topics, dirs, links, messages, active_agent, topic_context,
          interrupted, pc, passedAs, lastResult, resumeVal, parked, question,
          inner, scout, invoked, turn, hops, rounds, trace>>

NoQuestion == [kind |-> "none", slug |-> Null, listed |-> {}]
\* content_scout.py 141-142: the text of the topic's preferences.md, or the
\* default text when the file does not exist
NoPreferences == [text |-> "none", of |-> Null]
Preferences(t, slug) ==
  IF slug \in t THEN [text |-> "preferences.md", of |-> slug]
  ELSE [text |-> "No preferences found.", of |-> Null]

NoScout ==
  [stage |-> "none", task |-> "", topic_slug |-> NoHint,
   preferences |-> NoPreferences,
   saved_urls |-> <<>>, recommended |-> <<>>, summary |-> <<>>]

\* The topic store the program finds on disk: no topic at all, one topic,
\* two topics of which one has a saved link, or one topic next to a
\* directory that holds no preferences document.
InitStores ==
  { [topics |-> {}, dirs |-> {}, saved |-> <<>>],
    [topics |-> {SlugA}, dirs |-> {SlugA}, saved |-> <<>>],
    [topics |-> {SlugA, SlugAB}, dirs |-> {SlugA, SlugAB},
     saved |-> <<Link("u1", "T")>>],
    [topics |-> {SlugAB}, dirs |-> {SlugA, SlugAB}, saved |-> <<>>] }

Init ==
  /\ \E st \in InitStores :
       /\ topics = st.topics
       /\ dirs = st.dirs
       /\ links = [s \in Slugs |-> IF s = SlugA THEN st.saved ELSE <<>>]
  /\ messages = <<>>
  /\ active_agent = Unset
  /\ topic_context = EmptyContext
  /\ interrupted = FALSE
  /\ pc = "idle"
  /\ passedAs = "none"
  /\ lastResult = "none"
  /\ resumeVal = NoResume
  /\ parked = "none"
  /\ question = NoQuestion
  /\ inner = <<>>
  /\ scout = NoScout
  /\ invoked = "none"
  /\ turn = 0
  /\ hops = 0
  /\ rounds = 0
  /\ trace = <<>>

\* ------------------------------------------------------ Orchestrator.chat
\* graph.py 96-106: the call enters the graph as a resume value or as a
\* fresh user message.  A fresh input discards the unfinished task of the
\* previous checkpoint and with it the checkpoint of its subgraph.
Chat ==
  /\ pc = "idle"
  /\ turn < MaxTurns
  /\ hops < MaxHops
  /\ turn' = turn + 1
  /\ pc' = "agent"
  /\ IF interrupted
     THEN /\ passedAs' = "resume"
          /\ \E r \in Responses : resumeVal' = r
          /\ UNCHANGED <<messages, inner, scout, parked, trace>>
     ELSE /\ passedAs' = "fresh"
          /\ messages' =
               AddMessages(messages, <<HumanMessage(FreshId(messages, <<>>))>>)
          /\ resumeVal' = NoResume
          /\ inner' = <<>>
          /\ scout' = NoScout
          /\ parked' = "none"
          /\ trace' = <<>>
  /\ UNCHANGED <<store, active_agent, topic_context, interrupted, lastResult,
                 question, invoked, hops, rounds>>

\* graph.py 97-112: the flag after graph.invoke has returned
FlagAfterInvoke(flag, how, isInterrupt) ==
  LET afterResume == IF how = "resume" THEN FALSE ELSE flag
  IN IF isInterrupt THEN TRUE ELSE afterResume

\* graph.py 114-120: the message chat returns as the response, the last
\* assistant message that has content; none when there is no such message
\* ("No response generated.")
ChatResponse(msgs) ==
  LET idx == {i \in 1..Len(msgs) : msgs[i].type = "ai" /\ msgs[i].content # ""}
  IN IF idx = {} THEN <<>>
     ELSE <<msgs[CHOOSE i \in idx : \A j \in idx : j <= i]>>

\* graph.py 108-120: graph.invoke returned.  A resume value that no
\* interrupt() call has read ends with the call; the question is that of
\* the pending interrupt.
ChatReturn ==
  /\ pc \in {"ret_response", "ret_interrupt"}
  /\ interrupted' = FlagAfterInvoke(interrupted, passedAs, pc = "ret_interrupt")
  /\ lastResult' = IF pc = "ret_interrupt" THEN "interrupt" ELSE "response"
  /\ pc' = "idle"
  /\ invoked' = "none"
  /\ resumeVal' = NoResume
  /\ question' = IF pc = "ret_interrupt" THEN question ELSE NoQuestion
  /\ UNCHANGED <<store, outer, passedAs, parked, inner,
                 scout, turn, hops, rounds, trace>>

\* graph.invoke raised: chat raises, line 101 is not reached
ChatRaise ==
  /\ pc = "ret_raise"
  /\ lastResult' = "raised"
  /\ pc' = "idle"
  /\ invoked' = "none"
  /\ resumeVal' = NoResume
  /\ question' = NoQuestion
  /\ UNCHANGED <<store, outer, interrupted, passedAs, parked,
                 inner, scout, turn, hops, rounds, trace>>

\* ------------------------------------------------- replies of the model
\* A reply is the list of the calls it requests: a handoff tool by name,
\* any other tool as "tool".  Which tool of the worker's tool set it is,
\* and its arguments, are drawn when the call is executed.
HandoffCalls == {"handoff_to_topics", "handoff_to_scout", "handoff_to_supervisor"}
IsHandoff(c) == c \in HandoffCalls
HasHandoff(calls) == \E i \in 1..Len(calls) : IsHandoff(calls[i])
HandoffOnly == {<<h>> : h \in HandoffCalls}

\* supervisor.py 31: tools = [reflect, handoff_to_topics, handoff_to_scout]
SupervisorReplies ==
  {NoCalls, <<"tool">>, <<"handoff_to_topics">>, <<"handoff_to_scout">>,
   <<"tool", "handoff_to_topics">>,
   <<"handoff_to_topics", "handoff_to_scout">>}

\* topic_manager.py 40-49: the tools of the topic manager
TopicManagerReplies ==
  {NoCalls, <<"tool">>, <<"handoff_to_supervisor">>,
   <<"tool", "handoff_to_supervisor">>}

\* the tools of a worker that are no handoff
ToolsOf(worker) ==
  IF worker = "supervisor" THEN {"reflect"}
  ELSE {"reflect", "gather_preferences", "list_topics", "create_topic",
        "get_topic", "update_topic", "delete_topic"}

RepliesOf(worker) ==
  IF worker = "supervisor" THEN SupervisorReplies ELSE TopicManagerReplies

\* ------------------------------------------------------ graph.agent_node
\* The node looks the active worker up and invokes it.  A run that is
\* resumed continues the checkpoint of the worker's own graph, when the
\* unfinished task has one; otherwise the worker starts on the outer state.
AgentNode ==
  /\ pc = "agent"
  /\ hops' = hops + 1
  /\ LET worker == ActiveWorker(active_agent)
     IN /\ invoked' = worker
        /\ IF worker \notin Agents
           THEN /\ pc' = "ret_raise"
                /\ UNCHANGED <<inner, rounds, scout, trace>>
           ELSE IF worker = "content_scout"
           THEN /\ UNCHANGED <<inner, rounds>>
                /\ IF passedAs = "resume" /\ scout.stage # "none"
                   THEN /\ pc' = scout.stage
                        /\ UNCHANGED <<scout, trace>>
                   ELSE /\ pc' = "resolve"
                        /\ trace' = <<>>
                        /\ scout' =
                             [NoScout EXCEPT
                                !.stage = "resolve",
                                !.task = ContextGet(topic_context, "task",
                                                    "Find relevant content"),
                                !.topic_slug = ContextGet(topic_context,
                                                          "topic_slug", NoHint)]
           ELSE /\ UNCHANGED <<scout, trace>>
                /\ IF passedAs = "resume" /\ inner # <<>>
                   THEN /\ pc' = "tools"
                        /\ UNCHANGED <<inner, rounds>>
                   ELSE /\ pc' = "model"
                        /\ inner' = messages
                        /\ UNCHANGED rounds
  /\ UNCHANGED <<store, outer, orch, resumeVal, parked, question, turn>>

\* What the outer graph does when the agent node has returned `update`:
\* the update is merged and should_continue picks the next node.
AfterNode(msgs) ==
  IF should_continue(msgs) = "agent" THEN "agent" ELSE "ret_response"

\* the loop with a plain answer that hands the turn back to the router
ModelCall_handback ==
  /\ pc = "model"
  /\ \E calls \in RepliesOf(invoked) :
       /\ rounds < MaxRounds \/ calls = NoCalls \/ calls \in HandoffOnly
       /\ hops < MaxHops \/ ~HasHandoff(calls)
       /\ LET loop == BeforeModel(inner)
              reply == AIMessage(FreshId(messages, loop), calls,
                                 IF calls = NoCalls THEN "answer" ELSE "")
          IN IF calls = NoCalls
             THEN /\ messages' = AddMessages(messages, Append(loop, reply))
                  /\ inner' = <<>>
                  /\ resumeVal' = NoResume
                  /\ pc' = AfterNode(messages')
                  /\ active_agent' = "supervisor"
                  /\ topic_context' = EmptyContext
                  /\ UNCHANGED rounds
             ELSE /\ inner' = Append(loop, reply)
                  /\ pc' = "tools"
                  /\ rounds' = IF calls \in HandoffOnly THEN rounds
                                ELSE rounds + 1
                  /\ UNCHANGED <<messages, resumeVal, active_agent,
                                 topic_context>>
  /\ UNCHANGED <<store, orch, parked, question,
                 scout, invoked, turn, hops, trace>>

\* base.HandoffAgent.invoke, one model call of create_agent's loop, after
\* its before_model hook.  A reply
\* without tool calls ends the loop: agent.invoke returns the loop's
\* messages and the outer graph merges them.
ModelCall ==
  /\ pc = "model"
  /\ \E calls \in RepliesOf(invoked) :
       /\ rounds < MaxRounds \/ calls = NoCalls \/ calls \in HandoffOnly
       /\ hops < MaxHops \/ ~HasHandoff(calls)
       /\ LET loop == BeforeModel(inner)
              reply == AIMessage(FreshId(messages, loop), calls,
                                 IF calls = NoCalls THEN "answer" ELSE "")
          IN IF calls = NoCalls
             THEN /\ messages' = AddMessages(messages, Append(loop, reply))
                  /\ inner' = <<>>
                  /\ resumeVal' = NoResume
                  /\ pc' = AfterNode(messages')
                  /\ UNCHANGED rounds
             ELSE /\ inner' = Append(loop, reply)
                  /\ pc' = "tools"
                  /\ rounds' = IF calls \in HandoffOnly THEN rounds
                                ELSE rounds + 1
                  /\ UNCHANGED <<messages, resumeVal>>
  /\ UNCHANGED <<store, active_agent, topic_context, orch, parked, question,
                 scout, invoked, turn, hops, trace>>

\* --------------------------------------------------------- handoff tools
\* handoff_tools.py 20-23: the last assistant message of the loop, if any
LastAIMessages(msgs) ==
  LET idx == {i \in 1..Len(msgs) : msgs[i].type = "ai"}
  IN IF idx = {} THEN <<>>
     ELSE <<msgs[CHOOSE i \in idx : \A j \in idx : j <= i]>>

\* a Command that re-submits the assistant message under the id of the
\* first stored message
CommandMessages_restamped(state_messages, id, note) ==
  LET ai == LastAIMessages(state_messages)
  IN IF ai = <<>> THEN <<ToolMessage(id, note)>>
     ELSE <<[ai[1] EXCEPT !.id = 1], ToolMessage(id, note)>>

\* The messages of a Command: the loop's last assistant message and the
\* note.  Ids are opaque: the assistant message, which so far lives in the
\* abandoned loop only, is given the id `id` and the note the next one.
CommandMessages(state_messages, id, note) ==
  LET ai == LastAIMessages(state_messages)
  IN IF ai = <<>> THEN <<ToolMessage(id, note)>>
     ELSE <<[ai[1] EXCEPT !.id = id], ToolMessage(id + 1, note)>>

Update(agent, msgs, ctx) ==
  [active_agent |-> agent, messages |-> msgs, topic_context |-> ctx]

\* handoff_tools.py 8-39
handoff_to_topics(task, state_messages, id) ==
  Update("topic_manager",
         CommandMessages(state_messages, id, "transfer_topics"),
         TopicsContext(task))

\* handoff_to_scout that leaves topic_slug out of the payload
handoff_to_scout_noslug(task, topic_slug, state_messages, id) ==
  Update("content_scout",
         CommandMessages(state_messages, id, "transfer_scout"),
         TopicsContext(task))

\* handoff_tools.py 42-74
handoff_to_scout(task, topic_slug, state_messages, id) ==
  Update("content_scout",
         CommandMessages(state_messages, id, "transfer_scout"),
         ScoutContext(task, topic_slug))

\* handoff_to_supervisor with the payload line of handoff_to_topics
handoff_to_supervisor_pasted(summary, state_messages, id) ==
  Update("supervisor",
         CommandMessages(state_messages, id, "completed"),
         TopicsContext("t1"))

\* handoff_tools.py 77-106
handoff_to_supervisor(summary, state_messages, id) ==
  Update("supervisor",
         CommandMessages(state_messages, id, "completed"),
         EmptyContext)

\* the Commands when the updates of the two handoffs of the router are
\* merged into one
HandoffCommands_merged(name, state_messages, id) ==
  CASE name = "handoff_to_supervisor" ->
         {handoff_to_supervisor("done", state_messages, id)}
    [] OTHER ->
         {Update("topic_manager",
                 CommandMessages(state_messages, id, "transfer_topics"),
                 TopicsContext(t) \cup ScoutContext(t, h)) :
            t \in Tasks, h \in Hints}

\* The Commands a call of the handoff tool `name` can return, over its
\* arguments
HandoffCommands(name, state_messages, id) ==
  CASE name = "handoff_to_topics" ->
         {handoff_to_topics(t, state_messages, id) : t \in Tasks}
    [] name = "handoff_to_scout" ->
         {handoff_to_scout(t, h, state_messages, id) : t \in Tasks, h \in Hints}
    [] OTHER ->
         {handoff_to_supervisor("done", state_messages, id)}

\* ----------------------------------------------------------- store tools
Store(t, d, l) == [topics |-> t, dirs |-> d, links |-> l, result |-> "ok"]

\* topic_tools.py 57-76
create_topic(st, slug) ==
  IF slug \in st.dirs
  THEN [st EXCEPT !.result = "already exists"]
  ELSE [st EXCEPT !.dirs = @ \cup {slug}, !.topics = @ \cup {slug},
                  !.result = "created"]

\* topic_tools.py 79-98
delete_topic(st, slug) ==
  IF slug \notin st.dirs THEN [st EXCEPT !.result = "not found"]
  ELSE IF slug \notin st.topics THEN [st EXCEPT !.result = "not a valid topic"]
  ELSE [st EXCEPT !.dirs = @ \ {slug}, !.topics = @ \ {slug},
                  !.links[slug] = <<>>, !.result = "deleted"]

\* topic_tools.py 101-135
get_topic(st, slug) ==
  IF slug \notin st.topics THEN [st EXCEPT !.result = "not found"]
  ELSE [st EXCEPT !.result = "preferences and links"]

\* topic_tools.py 138-158
update_topic(st, slug) ==
  IF slug \notin st.topics THEN [st EXCEPT !.result = "not found"]
  ELSE [st EXCEPT !.result = "updated"]

\* topic_tools.py 161-163
to_slug(name) ==
  LET stripped == Strip(Lower(name))
  IN [i \in 1..Len(stripped) |->
        IF stripped[i] = " " THEN "-" ELSE stripped[i]]

\* topic_tools.py 166-190: the directory is moved with all its files
rename_topic(st, old_slug, new_name) ==
  LET new_slug == to_slug(new_name)
  IN IF old_slug \notin st.dirs THEN [st EXCEPT !.result = "not found"]
     ELSE IF new_slug \in st.dirs THEN [st EXCEPT !.result = "already exists"]
     ELSE [st EXCEPT
             !.dirs = (@ \ {old_slug}) \cup {new_slug},
             !.topics = IF old_slug \in @ THEN (@ \ {old_slug}) \cup {new_slug}
                        ELSE @,
             !.links = [@ EXCEPT ![new_slug] = st.links[old_slug],
                                 ![old_slug] = <<>>],
             !.result = "renamed"]

\* content_tools.py 12-53
save_article(st, slug, url, title) ==
  IF slug \notin st.dirs THEN [st EXCEPT !.result = "not found"]
  ELSE IF \E i \in 1..Len(st.links[slug]) : st.links[slug][i].url = url
  THEN [st EXCEPT !.result = "already saved"]
  ELSE [st EXCEPT !.links[slug] = SaveArticleList(@, url, title),
                  !.result = "saved"]

\* get_topic_slugs that lists every directory
get_topic_slugs_dirs(d, t) == SortedSeq(d)

\* topic_tools.py 34-40: the directories that hold preferences.md, sorted
get_topic_slugs(d, t) == SortedSeq({path \in d : path \in t})

\* topic_tools.py 43-54: the slugs the listing names
list_topics(st) == Range(get_topic_slugs(st.dirs, st.topics))

\* topic_tools.py 43-54 and thinking_tools.py 8-21
RunTool(st, name, slug) ==
  CASE name = "create_topic" -> create_topic(st, slug)
    [] name = "delete_topic" -> delete_topic(st, slug)
    [] name = "get_topic" -> get_topic(st, slug)
    [] name = "update_topic" -> update_topic(st, slug)
    [] name = "list_topics" -> [st EXCEPT !.result = "topics"]
    [] OTHER -> [st EXCEPT !.result = "recorded"]

\* slugs a tool call can name
SlugArgs(name) ==
  IF name \in {"create_topic", "delete_topic"} THEN Slugs
  ELSE {SlugA}

\* ------------------------------------------- the tools step of the loop
\* One task per requested tool call.  A handoff tool returns a Command for
\* the parent graph: the loop is abandoned and the outer graph applies the
\* Command of one handoff (whichever is raised first when a reply requests
\* several) and goes to the agent node again.  gather_preferences
\* (topic_tools.py 13-31) interrupts unless a resume value is pending.
ToolsBody(calls) ==
  /\ LET id == FreshId(messages, inner)
     IN IF HasHandoff(calls)
        THEN \E i \in {j \in 1..Len(calls) : IsHandoff(calls[j])} :
               \E cmd \in HandoffCommands(calls[i], inner,
                                           FreshId(messages, <<>>)) :
                 /\ active_agent' = cmd.active_agent
                 /\ topic_context' = cmd.topic_context
                 /\ messages' = AddMessages(messages, cmd.messages)
                 /\ inner' = <<>>
                 /\ resumeVal' = NoResume
                 /\ parked' = "none"
                 /\ pc' = "agent"
                 /\ UNCHANGED <<store, question>>
        ELSE \E name \in ToolsOf(invoked) :
               /\ parked = "gather" => name = "gather_preferences"
               /\ IF name = "gather_preferences"
                  THEN IF resumeVal = NoResume
                       THEN /\ parked' = "gather"
                            /\ question' = [kind |-> "gather", slug |-> Null,
                                            listed |-> {}]
                            /\ pc' = "ret_interrupt"
                            /\ UNCHANGED <<store, outer, inner, resumeVal>>
                       ELSE /\ inner' = Append(inner,
                                               ToolMessage(id, "tool result"))
                            /\ resumeVal' = NoResume
                            /\ parked' = "none"
                            /\ pc' = "model"
                            /\ UNCHANGED <<store, outer, question>>
                  ELSE \E slug \in SlugArgs(name) :
                         LET st == RunTool(Store(topics, dirs, links), name,
                                           slug)
                         IN /\ topics' = st.topics
                            /\ dirs' = st.dirs
                            /\ links' = st.links
                            /\ inner' = Append(inner,
                                               ToolMessage(id, "tool result"))
                            /\ pc' = "model"
                            /\ UNCHANGED <<outer, resumeVal, parked, question>>
  /\ UNCHANGED <<orch, scout, invoked, turn, hops, rounds, trace>>

ToolsStep ==
  /\ pc = "tools"
  /\ ToolsBody(Last(inner).calls)

\* ---------------------------------------------- calls outside the tool set
\* supervisor.py 31 and topic_manager.py 40-49: the handoff tools a worker
\* is created with
HandoffsOf(worker) ==
  IF worker = "supervisor" THEN {"handoff_to_topics", "handoff_to_scout"}
  ELSE {"handoff_to_supervisor"}

\* the tools step without the lookup of the call's name
ValidCalls_all(worker, calls) == calls

\* base.py 52-57: the loop is created with the worker's tools only.  A
\* requested call whose name is none of them is answered with an error
\* note and runs nothing; the calls that are left are executed.
ValidCalls(worker, calls) ==
  SelectSeq(calls, LAMBDA c : c = "tool" \/ c \in HandoffsOf(worker))

\* what a model can request whatever tools it was given: up to MaxCalls
\* calls, each a handoff tool by name or another tool
MaxCalls == 2
AnyReplies == SeqsUpTo(HandoffCalls \cup {"tool"}, MaxCalls)

\* ModelCall for a model that may request any call
ModelCallAny ==
  /\ pc = "model"
  /\ \E calls \in AnyReplies :
       LET fires == HasHandoff(ValidCalls(invoked, calls))
           loop == BeforeModel(inner)
           reply == AIMessage(FreshId(messages, loop), calls,
                              IF calls = NoCalls THEN "answer" ELSE "")
       IN /\ rounds < MaxRounds \/ calls = NoCalls \/ fires
          /\ hops < MaxHops \/ ~fires
          /\ IF calls = NoCalls
             THEN /\ messages' = AddMessages(messages, Append(loop, reply))
                  /\ inner' = <<>>
                  /\ resumeVal' = NoResume
                  /\ pc' = AfterNode(messages')
                  /\ UNCHANGED rounds
             ELSE /\ inner' = Append(loop, reply)
                  /\ pc' = "tools"
                  /\ rounds' = IF fires THEN rounds ELSE rounds + 1
                  /\ UNCHANGED <<messages, resumeVal>>
  /\ UNCHANGED <<store, active_agent, topic_context, orch, parked, question,
                 scout, invoked, turn, hops, trace>>

\* ToolsStep on the calls that name a tool of the worker; when none does,
\* the error notes are all the step appends
ToolsStepAny ==
  /\ pc = "tools"
  /\ LET valid == ValidCalls(invoked, Last(inner).calls)
     IN IF valid = <<>>
        THEN /\ inner' = Append(inner, ToolMessage(FreshId(messages, inner),
                                                   "not a valid tool"))
             /\ pc' = "model"
             /\ UNCHANGED <<store, outer, orch, resumeVal, parked, question,
                            scout, invoked, turn, hops, rounds, trace>>
        ELSE ToolsBody(valid)

\* -------------------------------------------- Content Scout: resolve_topic
Yes == <<"y", "e", "s">>
Y == <<"y">>

\* TopicResolution values the model can return
Resolutions ==
  [slug : LLMSlugs \cup {Null}, confidence : {"high", "low"}]

\* content_scout.py 93-99: the first available topic the reply matches
RECURSIVE MatchTopic(_, _)
MatchTopic(response_lower, available) ==
  IF available = <<>> THEN Null
  ELSE LET topic == Head(available)
       IN IF \/ response_lower = topic
             \/ IsSubstring(response_lower, topic)
             \/ IsSubstring(topic, response_lower)
          THEN topic
          ELSE MatchTopic(response_lower, Tail(available))

\* content_scout.py 88-99: what the stage returns for the user's reply
ProcessResponse(response, result, available) ==
  LET response_lower == Strip(Lower(response))
  IN IF response_lower \in {Yes, Y} /\ result.slug # Null
     THEN result.slug
     ELSE MatchTopic(response_lower, available)

\* the test of line 77 without the confidence
Accepted_known(result, available) ==
  result.slug \in Range(available)

\* content_scout.py 77
Accepted(result, available) ==
  result.confidence = "high" /\ result.slug \in Range(available)

\* the test of line 81 without `in available_topics`
QuestionFor_unknown(result, available) ==
  IF result.slug # Null
  THEN [kind |-> "confirm", slug |-> result.slug, listed |-> {result.slug}]
  ELSE [kind |-> "which", slug |-> Null, listed |-> Range(available)]

\* content_scout.py 80-84: the question and the slugs its text names
QuestionFor(result, available) ==
  IF result.slug # Null /\ result.slug \in Range(available)
  THEN [kind |-> "confirm", slug |-> result.slug, listed |-> {result.slug}]
  ELSE [kind |-> "which", slug |-> Null, listed |-> Range(available)]

\* content_scout.py 60-99 for the resolution `result` of the model.
\* interrupt() returns the pending resume value, or suspends the run when
\* there is none.
ResolveStep(result, available) ==
  IF Accepted(result, available)
  THEN /\ scout' = [scout EXCEPT !.topic_slug = result.slug,
                                 !.stage = "load"]
       /\ parked' = "none"
       /\ pc' = "load"
       /\ trace' = trace \o <<"llm", "resolve_topic">>
       /\ resumeVal' = NoResume
       /\ UNCHANGED question
  ELSE IF resumeVal = NoResume
  THEN /\ parked' = "resolve"
       /\ question' = QuestionFor(result, available)
       /\ pc' = "ret_interrupt"
       /\ trace' = Append(trace, "llm")
       /\ UNCHANGED <<scout, resumeVal>>
  ELSE /\ scout' =
            [scout EXCEPT
               !.topic_slug = ProcessResponse(resumeVal, result, available),
               !.stage = "load"]
       /\ resumeVal' = NoResume
       /\ parked' = "none"
       /\ pc' = "load"
       /\ trace' = trace \o <<"llm", "resolve_topic">>
       /\ UNCHANGED question

\* content_scout.py 47-99, one execution of the node from its first line,
\* with a model that returns one of `results`; a resumed run executes the
\* node again from the top.
ResolveBody(results) ==
  /\ LET available == AvailableTopics(topics)
     IN IF available = <<>>
        THEN IF resumeVal = NoResume
             THEN /\ parked' = "resolve"
                  /\ question' = [kind |-> "no_topics", slug |-> Null,
                                  listed |-> {}]
                  /\ pc' = "ret_interrupt"
                  /\ UNCHANGED <<scout, resumeVal, trace>>
             ELSE /\ scout' = [scout EXCEPT !.topic_slug = Null,
                                            !.stage = "load"]
                  /\ resumeVal' = NoResume
                  /\ parked' = "none"
                  /\ pc' = "load"
                  /\ trace' = Append(trace, "resolve_topic")
                  /\ UNCHANGED question
        ELSE \E result \in results : ResolveStep(result, available)
  /\ UNCHANGED <<store, outer, orch, inner, invoked, turn, hops,
                 rounds>>

ResolveTopic ==
  /\ pc = "resolve"
  /\ ResolveBody(Resolutions)

\* ---------------------------------------------- Content Scout: load_context
\* content_scout.py 136-155.  TOPICS_DIR / None raises TypeError; a slug
\* without a links file gives an empty list.
LinksOf(l, d, slug) == IF slug \in d THEN l[slug] ELSE <<>>

\* the saved URLs last first
SavedUrls_reversed(list) ==
  [i \in 1..Len(list) |-> list[Len(list) + 1 - i].url]

\* content_scout.py 150
SavedUrls(list) == [i \in 1..Len(list) |-> list[i].url]

LoadContext ==
  /\ pc = "load"
  /\ IF scout.topic_slug = Null
     THEN /\ pc' = "ret_raise"
          /\ trace' = Append(trace, "raise")
          /\ UNCHANGED scout
     ELSE /\ scout' = [scout EXCEPT
                         !.preferences = Preferences(topics, scout.topic_slug),
                         !.saved_urls =
                            SavedUrls(LinksOf(links, dirs, scout.topic_slug)),
                         !.stage = "search"]
          /\ pc' = "search"
          /\ trace' = Append(trace, "load_context")
  /\ UNCHANGED <<store, outer, orch, resumeVal, parked, question, inner,
                 invoked, turn, hops, rounds>>

\* ------------------------------------------- Content Scout: search_evaluate
Articles == [url : Urls \cup {""}, title : Titles]

Batches == SeqsUpTo(Articles, MaxBatch)

\* A summary text: which text it is, how many characters of the reply it
\* keeps (0 when it is not taken from the reply text), and what
\* save_articles added to it.
Summary(base) == [base |-> base, chars |-> 0, note |-> "none", saved |-> <<>>]

\* content_scout.py 210: content[:500]
SummaryLimit == 500

Min(a, b) == IF a <= b THEN a ELSE b

\* content[:500] as a summary
Truncated(chars) ==
  [Summary("reply text") EXCEPT !.chars = Min(chars, SummaryLimit)]

\* What json.loads makes of a text: malformed (JSONDecodeError), a value
\* that is no object, or an object with or without its two keys.
NotJson(k) ==
  [kind |-> k, has_articles |-> FALSE, articles |-> <<>>,
   has_summary |-> FALSE]
Malformed == NotJson("malformed")
NonObject == NotJson("nonobject")
NoFence == NotJson("absent")
JsonObjects ==
  {[kind |-> "object", has_articles |-> ha, articles |-> b,
    has_summary |-> hs] :
     ha \in BOOLEAN, b \in Batches, hs \in BOOLEAN}
JsonValues ==
  {Malformed, NonObject} \cup {o \in JsonObjects : ~o.has_articles => o.articles = <<>>}

\* The content of the last assistant message of the search loop that has
\* content: its number of characters, the text of its first ```json fence
\* (if the regular expression of line 199 finds one) and the whole text,
\* both as json.loads sees them.  No characters: no message has content.
Lengths == {0, 20, SummaryLimit, SummaryLimit + 1}
Contents ==
  {c \in [fence : JsonValues \cup {NoFence}, whole : JsonValues,
          chars : Lengths] :
     c.chars = 0 => (c.fence = NoFence /\ c.whole = Malformed)}

\* The contents the pipeline is run on: no reply, text that is no JSON,
\* JSON that is no object, an object with both keys for every batch of up to
\* MaxFound articles with the URL "u1" or none, and an object without keys.
SearchReplies ==
  {c \in Contents :
     /\ Len(c.whole.articles) <= MaxFound
     /\ \A i \in 1..Len(c.whole.articles) :
          c.whole.articles[i].url \in {"u1", ""}
     /\ c.fence = NoFence
     /\ c.chars \in {0, 20}
     /\ c.whole.kind = "object" => (c.whole.has_articles = c.whole.has_summary)
     /\ (c.whole.kind = "object" /\ ~c.whole.has_articles) => c.chars = 20}

\* the parsing with the whole reply tried before the fence
ParseReply_wholefirst(content) ==
  IF content.chars = 0
  THEN [raised |-> FALSE, recommended |-> <<>>,
        summary |-> Summary("No articles found.")]
  ELSE LET data == IF content.whole.kind = "object" \/ content.fence = NoFence
                   THEN content.whole
                   ELSE content.fence
       IN CASE data.kind = "malformed" ->
                 [raised |-> FALSE, recommended |-> <<>>,
                  summary |-> Truncated(content.chars)]
            [] data.kind = "nonobject" ->
                 [raised |-> TRUE, recommended |-> <<>>,
                  summary |-> Summary("No articles found.")]
            [] OTHER ->
                 [raised |-> FALSE,
                  recommended |-> IF data.has_articles THEN data.articles
                                  ELSE <<>>,
                  summary |-> Summary(IF data.has_summary THEN "S"
                                      ELSE "Found articles.")]

\* content_scout.py 188-217; data.get on a JSON value that is no object
\* raises AttributeError, which the except clause does not catch.
ParseReply(content) ==
  IF content.chars = 0
  THEN [raised |-> FALSE, recommended |-> <<>>,
        summary |-> Summary("No articles found.")]
  ELSE LET data == IF content.fence # NoFence THEN content.fence
                   ELSE content.whole
       IN CASE data.kind = "malformed" ->
                 [raised |-> FALSE, recommended |-> <<>>,
                  summary |-> Truncated(content.chars)]
            [] data.kind = "nonobject" ->
                 [raised |-> TRUE, recommended |-> <<>>,
                  summary |-> Summary("No articles found.")]
            [] OTHER ->
                 [raised |-> FALSE,
                  recommended |-> IF data.has_articles THEN data.articles
                                  ELSE <<>>,
                  summary |-> Summary(IF data.has_summary THEN "S"
                                      ELSE "Found articles.")]

\* search_evaluate on the content `reply`
SearchStep(reply) ==
  LET parsed == ParseReply(reply)
  IN IF parsed.raised
     THEN /\ pc' = "ret_raise"
          /\ trace' = trace \o <<"search", "raise">>
          /\ UNCHANGED scout
     ELSE /\ scout' = [scout EXCEPT !.recommended = parsed.recommended,
                                    !.summary = parsed.summary,
                                    !.stage = "save"]
          /\ pc' = "save"
          /\ trace' = trace \o <<"search", "search_evaluate">>

SearchEvaluate ==
  /\ pc = "search"
  /\ \E reply \in SearchReplies : SearchStep(reply)
  /\ UNCHANGED <<store, outer, orch, resumeVal, parked, question, inner,
                 invoked, turn, hops, rounds>>

\* --------------------------------------------- Content Scout: save_articles
RECURSIVE SelectNotIn(_, _)
SelectNotIn(recommended, existing_urls) ==
  IF recommended = <<>> THEN <<>>
  ELSE IF Head(recommended).url \notin existing_urls
       THEN <<Head(recommended).url>>
            \o SelectNotIn(Tail(recommended), existing_urls)
       ELSE SelectNotIn(Tail(recommended), existing_urls)

\* content_scout.py 257-266
SaveSummary(original, recommended, existing_urls, saved_count) ==
  IF saved_count > 0
  THEN [original EXCEPT
          !.note = "saved",
          !.saved = SubSeq(SelectNotIn(recommended, existing_urls),
                           1, saved_count)]
  ELSE [original EXCEPT !.note = "no new articles"]

\* save_articles without the early return of lines 225-226
SaveArticles_noreturn ==
  /\ pc = "save"
  /\ LET slug == scout.topic_slug
         existing == LinksOf(links, dirs, slug)
         updated == SaveArticlesList(existing, scout.recommended)
         saved_count == Len(updated) - Len(existing)
     IN IF saved_count > 0 /\ slug \notin dirs
        THEN /\ pc' = "ret_raise"
             /\ trace' = Append(trace, "raise")
             /\ UNCHANGED <<scout, links>>
        ELSE /\ links' = IF saved_count > 0
                         THEN [links EXCEPT ![slug] = updated]
                         ELSE links
             /\ scout' = [scout EXCEPT
                            !.summary = SaveSummary(scout.summary,
                                                    scout.recommended,
                                                    UrlsOf(existing),
                                                    saved_count),
                            !.stage = "end"]
             /\ pc' = "handback"
             /\ trace' = IF saved_count > 0
                         THEN trace \o <<"write", "save_articles">>
                         ELSE Append(trace, "save_articles")
  /\ UNCHANGED <<topics, dirs, outer, orch, resumeVal, parked, question,
                 inner, invoked, turn, hops, rounds>>

\* content_scout.py 220-266.  Writing links.yaml of a slug without a
\* directory raises FileNotFoundError.  The event "write" records that the
\* file was written (lines 253-255).
SaveArticles ==
  /\ pc = "save"
  /\ LET slug == scout.topic_slug
         existing == LinksOf(links, dirs, slug)
         updated == SaveArticlesList(existing, scout.recommended)
         saved_count == Len(updated) - Len(existing)
     IN IF scout.recommended = <<>>
        THEN /\ scout' = [scout EXCEPT !.stage = "end"]
             /\ pc' = "handback"
             /\ trace' = Append(trace, "save_articles")
             /\ UNCHANGED links
        ELSE IF saved_count > 0 /\ slug \notin dirs
        THEN /\ pc' = "ret_raise"
             /\ trace' = Append(trace, "raise")
             /\ UNCHANGED <<scout, links>>
        ELSE /\ links' = IF saved_count > 0
                         THEN [links EXCEPT ![slug] = updated]
                         ELSE links
             /\ scout' = [scout EXCEPT
                            !.summary = SaveSummary(scout.summary,
                                                    scout.recommended,
                                                    UrlsOf(existing),
                                                    saved_count),
                            !.stage = "end"]
             /\ pc' = "handback"
             /\ trace' = IF saved_count > 0
                         THEN trace \o <<"write", "save_articles">>
                         ELSE Append(trace, "save_articles")
  /\ UNCHANGED <<topics, dirs, outer, orch, resumeVal, parked, question,
                 inner, invoked, turn, hops, rounds>>

\* the handback as a tool message
Handback_tool(summary, id) ==
  Update("supervisor", <<ToolMessage(id, "summary")>>, EmptyContext)

\* content_scout.py 322-332: what ContentScout.invoke returns; the content
\* "summary" stands for the text of the pipeline's summary
Handback(summary, id) ==
  Update("supervisor", <<AIMessage(id, NoCalls, "summary")>>, EmptyContext)

\* content_scout.py 305-332: the subgraph has ended; the outer graph merges
\* what ContentScout.invoke returns
ScoutReturn ==
  /\ pc = "handback"
  /\ LET update == Handback(scout.summary, FreshId(messages, <<>>))
     IN /\ active_agent' = update.active_agent
        /\ topic_context' = update.topic_context
        /\ messages' = AddMessages(messages, update.messages)
  /\ scout' = NoScout
  /\ resumeVal' = NoResume
  /\ trace' = <<>>
  /\ pc' = AfterNode(messages')
  /\ UNCHANGED <<store, orch, parked, question, inner, invoked, turn, hops,
                 rounds>>

\* ------------------------------------------------------------------ Spec
Next ==
  \/ Chat
  \/ ChatReturn
  \/ ChatRaise
  \/ AgentNode
  \/ ModelCall
  \/ ToolsStep
  \/ ResolveTopic
  \/ LoadContext
  \/ SearchEvaluate
  \/ SaveArticles
  \/ ScoutReturn

Spec == Init /\ [][Next]_vars

\* ----------------------------------------------- the save operations alone
\* The three save operations applied to the store in any order, with any
\* arguments: the pipeline's save (content_scout.py 220-255), the
\* save_article tool (content_tools.py 12-53) and save_brief
\* (briefs.py 33-72).
MaxLinks == 4

StoreSaveArticles ==
  /\ \E slug \in dirs, recommended \in Batches \ {<<>>} :
       LET updated == SaveArticlesList(links[slug], recommended)
       IN /\ Len(updated) <= MaxLinks
          /\ links' = [links EXCEPT ![slug] = updated]
  /\ UNCHANGED <<topics, dirs, outer, orch, pc, resumeVal, parked, question,
                 inner, scout, invoked, turn, hops, rounds, trace>>

StoreSaveArticle ==
  /\ \E slug \in Slugs, url \in Urls, title \in Titles :
       /\ Len(links[slug]) < MaxLinks
       /\ links' = IF slug \in dirs
                   THEN [links EXCEPT
                           ![slug] = SaveArticleList(links[slug], url, title)]
                   ELSE links
  /\ UNCHANGED <<topics, dirs, outer, orch, pc, resumeVal, parked, question,
                 inner, scout, invoked, turn, hops, rounds, trace>>

StoreSaveBrief ==
  /\ \E slug \in dirs, articles \in Batches :
       LET updated == SaveBriefList(links[slug], articles)
       IN /\ Len(updated) <= MaxLinks
          /\ links' = [links EXCEPT ![slug] = updated]
  /\ UNCHANGED <<topics, dirs, outer, orch, pc, resumeVal, parked, question,
                 inner, scout, invoked, turn, hops, rounds, trace>>

StoreNext == StoreSaveArticles \/ StoreSaveArticle \/ StoreSaveBrief

StoreSpec == Init /\ [][StoreNext]_vars

\* -------------------------------------------- one save, run a second time
\* A save operation run twice with the same recommendation on the links of
\* one topic: the pipeline's save on a recommendation list
\* (content_scout.py 220-255) or the save_article tool on one article
\* (content_tools.py 12-53).  scout holds the topic and the recommendation,
\* pc the operation, rounds the number of runs done.
SaveRuns == 2

\* lists of saved links without a duplicate URL
ResaveLists ==
  {l \in SeqsUpTo({Link(u, t) : u \in Urls, t \in Titles}, Cardinality(Urls)) :
     NoDuplicateUrls(l)}

ResaveInit ==
  /\ \E slug \in Slugs, existing \in ResaveLists, b \in Batches \ {<<>>},
        op \in {"save", "tools"} :
       /\ op = "tools" => Len(b) = 1
       /\ topics = {slug}
       /\ dirs = {slug}
       /\ links = [s \in Slugs |-> IF s = slug THEN existing ELSE <<>>]
       /\ scout = [NoScout EXCEPT !.stage = "save", !.topic_slug = slug,
                                  !.preferences = Preferences({slug}, slug),
                                  !.saved_urls = SavedUrls(existing),
                                  !.recommended = b]
       /\ pc = op
  /\ messages = <<>>
  /\ active_agent = Unset
  /\ topic_context = EmptyContext
  /\ interrupted = FALSE
  /\ passedAs = "none"
  /\ lastResult = "none"
  /\ resumeVal = NoResume
  /\ parked = "none"
  /\ question = NoQuestion
  /\ inner = <<>>
  /\ invoked = "none"
  /\ turn = 0
  /\ hops = 0
  /\ rounds = 0
  /\ trace = <<>>

ResaveArticles ==
  /\ pc = "save"
  /\ rounds < SaveRuns
  /\ rounds' = rounds + 1
  /\ links' = [links EXCEPT
                 ![scout.topic_slug] = SaveArticlesList(@, scout.recommended)]
  /\ UNCHANGED <<topics, dirs, outer, orch, pc, resumeVal, parked, question,
                 inner, scout, invoked, turn, hops, trace>>

ResaveArticle ==
  /\ pc = "tools"
  /\ rounds < SaveRuns
  /\ rounds' = rounds + 1
  /\ LET article == Head(scout.recommended)
     IN links' = [links EXCEPT
                    ![scout.topic_slug] =
                       SaveArticleList(@, article.url, article.title)]
  /\ UNCHANGED <<topics, dirs, outer, orch, pc, resumeVal, parked, question,
                 inner, scout, invoked, turn, hops, trace>>

ResaveNext == ResaveArticles \/ ResaveArticle

ResaveSpec == ResaveInit /\ [][ResaveNext]_vars

\* ------------------------------------------ search_evaluate on any reply
\* search_evaluate (content_scout.py 188-217) on every content the search
\* loop can end with; inner holds the loop's last message with content.
SearchInit ==
  /\ \E c \in Contents : inner = <<AIMessage(1, NoCalls, c)>>
  /\ topics = {SlugA}
  /\ dirs = {SlugA}
  /\ links = [s \in Slugs |-> <<>>]
  /\ scout = [NoScout EXCEPT !.stage = "search", !.topic_slug = SlugA,
                             !.preferences = Preferences({SlugA}, SlugA),
                             !.task = "t1"]
  /\ pc = "search"
  /\ messages = <<>>
  /\ active_agent = "content_scout"
  /\ topic_context = ScoutContext("t1", SlugA)
  /\ interrupted = FALSE
  /\ passedAs = "fresh"
  /\ lastResult = "none"
  /\ resumeVal = NoResume
  /\ parked = "none"
  /\ question = NoQuestion
  /\ invoked = "content_scout"
  /\ turn = 1
  /\ hops = 2
  /\ rounds = 0
  /\ trace = <<"llm", "resolve_topic", "load_context">>

SearchEvaluateReply ==
  /\ pc = "search"
  /\ SearchStep(Last(inner).content)
  /\ UNCHANGED <<store, outer, orch, resumeVal, parked, question, inner,
                 invoked, turn, hops, rounds>>

SearchNext == SearchEvaluateReply

SearchSpec == SearchInit /\ [][SearchNext]_vars

\* --------------------------------------------- the loop on a long history
\* The tool-call loop of a worker (base.py 49-61) on stored histories of
\* every length up to MaxHistory, with the before_model hook and the model
\* call as separate steps: between them inner is the payload of the model
\* request.
MaxHistory == 18

\* past turns answered by the router, then the user's new message
History(n) ==
  [i \in 1..n |-> IF i % 2 = 1 THEN HumanMessage(i)
                  ELSE AIMessage(i, NoCalls, "answer")]

\* the same, with a handoff to the topic manager in the first turn
HistoryWithHandoff(n) ==
  [i \in 1..n |->
     CASE i = 2 -> AIMessage(i, <<"handoff_to_topics">>, "")
       [] i = 3 -> ToolMessage(i, "transfer_topics")
       [] i = 4 -> AIMessage(i, NoCalls, "answer")
       [] OTHER -> IF i % 2 = 1 THEN HumanMessage(i)
                   ELSE AIMessage(i, NoCalls, "answer")]

TrimInit ==
  /\ \E n \in 1..MaxHistory, worker \in {"supervisor", "topic_manager"},
        task \in Tasks :
       /\ n % 2 = 1
       /\ worker = "topic_manager" => n >= 5
       /\ messages = IF worker = "supervisor" THEN History(n)
                     ELSE HistoryWithHandoff(n)
       /\ active_agent = worker
       /\ topic_context = IF worker = "supervisor" THEN EmptyContext
                          ELSE TopicsContext(task)
       /\ invoked = worker
  /\ inner = messages
  /\ pc = "model"
  /\ topics = {SlugA}
  /\ dirs = {SlugA}
  /\ links = [s \in Slugs |-> <<>>]
  /\ interrupted = FALSE
  /\ passedAs = "fresh"
  /\ lastResult = "response"
  /\ resumeVal = NoResume
  /\ parked = "none"
  /\ question = NoQuestion
  /\ scout = NoScout
  /\ turn = 1
  /\ hops = 1
  /\ rounds = 0
  /\ trace = <<>>

\* the before_model hook of the loop
TrimBeforeModel ==
  /\ pc = "model"
  /\ pc' = "request"
  /\ inner' = BeforeModel(inner)
  /\ UNCHANGED <<store, outer, orch, resumeVal, parked, question, scout,
                 invoked, turn, hops, rounds, trace>>

\* The model call on the payload and, when the reply calls reflect, the
\* tool's result; a reply without calls ends the loop.
TrimModelCall ==
  /\ pc = "request"
  /\ \E calls \in {NoCalls, <<"tool">>} :
       /\ rounds < MaxRounds \/ calls = NoCalls
       /\ LET id == FreshId(messages, inner)
              reply == AIMessage(id, calls,
                                 IF calls = NoCalls THEN "answer" ELSE "")
          IN IF calls = NoCalls
             THEN /\ messages' = AddMessages(messages, Append(inner, reply))
                  /\ inner' = <<>>
                  /\ pc' = AfterNode(messages')
                  /\ UNCHANGED rounds
             ELSE /\ inner' = inner \o <<reply, ToolMessage(id + 1, "tool result")>>
                  /\ pc' = "model"
                  /\ rounds' = rounds + 1
                  /\ UNCHANGED messages
  /\ UNCHANGED <<store, active_agent, topic_context, orch, resumeVal, parked,
                 question, scout, invoked, turn, hops, trace>>

TrimNext == TrimBeforeModel \/ TrimModelCall

TrimSpec == TrimInit /\ [][TrimNext]_vars

\* ------------------------------------------- the program on a long history
\* The whole program, started in a turn whose stored history is one message
\* below or one above MAX_MESSAGES: the router is about to be called on the
\* user's new message.
LongInit ==
  /\ \E n \in {MAX_MESSAGES - 1, MAX_MESSAGES + 1} : messages = History(n)
  /\ inner = messages
  /\ active_agent = "supervisor"
  /\ topic_context = EmptyContext
  /\ invoked = "supervisor"
  /\ pc = "model"
  /\ topics = {SlugA}
  /\ dirs = {SlugA}
  /\ links = [s \in Slugs |-> <<>>]
  /\ interrupted = FALSE
  /\ passedAs = "fresh"
  /\ lastResult = "response"
  /\ resumeVal = NoResume
  /\ parked = "none"
  /\ question = NoQuestion
  /\ scout = NoScout
  /\ turn = 1
  /\ hops = 1
  /\ rounds = 0
  /\ trace = <<>>

LongSpec == LongInit /\ [][Next]_vars

\* ------------------------------------------ resolve_topic with known replies
\* A Content Scout run on a store with at least one topic, from the entry
\* of resolve_topic to the end of load_context, with the replies of the
\* resolution model fixed in advance: inner holds them in call order, the
\* first for the execution that may suspend, the second for the execution
\* on resume.
ResolveInit ==
  /\ \E ts \in {{SlugA}, {SlugAB}, {SlugA, SlugAB}}, hint \in Hints,
        first \in Resolutions, second \in Resolutions :
       /\ topics = ts
       /\ dirs = ts
       /\ topic_context = ScoutContext("t1", hint)
       /\ scout = [NoScout EXCEPT !.stage = "resolve", !.task = "t1",
                                  !.topic_slug = hint]
       /\ inner = <<AIMessage(1, NoCalls, first), AIMessage(2, NoCalls, second)>>
  /\ links = [s \in Slugs |-> <<>>]
  /\ messages = <<>>
  /\ active_agent = "content_scout"
  /\ interrupted = FALSE
  /\ pc = "resolve"
  /\ passedAs = "fresh"
  /\ lastResult = "none"
  /\ resumeVal = NoResume
  /\ parked = "none"
  /\ question = NoQuestion
  /\ invoked = "content_scout"
  /\ turn = 1
  /\ hops = 2
  /\ rounds = 0
  /\ trace = <<>>

\* the reply of the next call of the resolution model
NextResolution == inner[Count(trace, "llm") + 1].content

ResolveTopicScripted ==
  /\ pc = "resolve"
  /\ ResolveBody({NextResolution})

ResolveNext ==
  \/ ResolveTopicScripted
  \/ ChatReturn
  \/ ChatRaise
  \/ Chat
  \/ AgentNode
  \/ LoadContext

ResolveSpec == ResolveInit /\ [][ResolveNext]_vars

\* ------------------------------------- the workers with any tool request
\* One chat call from the dispatch of the router, or of the topic manager
\* after a handoff of an earlier turn, with a model that may request tools
\* its worker was not given.  Two dispatches and one round of tools are
\* left; the Content Scout is dispatched and not followed further.
RegistryInit ==
  /\ \E worker \in {"supervisor", "topic_manager"}, task \in Tasks :
       /\ messages = IF worker = "supervisor" THEN History(1)
                     ELSE HistoryWithHandoff(5)
       /\ active_agent = worker
       /\ topic_context = IF worker = "supervisor" THEN EmptyContext
                          ELSE TopicsContext(task)
  /\ topics = {SlugA}
  /\ dirs = {SlugA}
  /\ links = [s \in Slugs |-> <<>>]
  /\ interrupted = FALSE
  /\ pc = "agent"
  /\ passedAs = "fresh"
  /\ lastResult = "none"
  /\ resumeVal = NoResume
  /\ parked = "none"
  /\ question = NoQuestion
  /\ inner = <<>>
  /\ scout = NoScout
  /\ invoked = "none"
  /\ turn = 1
  /\ hops = MaxHops - 2
  /\ rounds = MaxRounds - 1
  /\ trace = <<>>

RegistryNext ==
  \/ ChatReturn
  \/ AgentNode
  \/ ModelCallAny
  \/ ToolsStepAny

RegistrySpec == RegistryInit /\ [][RegistryNext]_vars

\* ------------------------------------------------ the store operations
\* Every operation on the topic store, applied in any order with any
\* arguments: the tools of topic_tools.py, the save_article tool and the
\* pipeline's save, between chat calls.  trace holds the last operation and
\* the slug it was called on, lastResult the message it returned.
Names == {<<"A", "b">>, <<"a", " ">>, <<" ", "a", "b">>}

TopicsApply(name, slug, st) ==
  /\ \A sl \in Slugs : Len(st.links[sl]) <= MaxLinks
  /\ topics' = st.topics
  /\ dirs' = st.dirs
  /\ links' = st.links
  /\ trace' = <<name, slug>>
  /\ lastResult' = st.result
  /\ UNCHANGED <<outer, interrupted, passedAs, pc, resumeVal, parked,
                 question, inner, scout, invoked, turn, hops, rounds>>

TopicsTool ==
  /\ pc = "idle"
  /\ \E name \in {"list_topics", "create_topic", "get_topic", "update_topic",
                   "delete_topic"}, slug \in Slugs :
       TopicsApply(name, slug, RunTool(Store(topics, dirs, links), name, slug))

TopicsRename ==
  /\ pc = "idle"
  /\ \E old_slug \in Slugs, new_name \in Names :
       TopicsApply("rename_topic", old_slug,
                   rename_topic(Store(topics, dirs, links), old_slug, new_name))

TopicsSaveArticle ==
  /\ pc = "idle"
  /\ \E slug \in Slugs, url \in Urls, title \in Titles :
       TopicsApply("save_article", slug,
                   save_article(Store(topics, dirs, links), slug, url, title))

TopicsSaveArticles ==
  /\ pc = "idle"
  /\ \E slug \in dirs, recommended \in Batches \ {<<>>} :
       TopicsApply("save_articles", slug,
                   [Store(topics, dirs,
                          [links EXCEPT
                             ![slug] = SaveArticlesList(@, recommended)])
                      EXCEPT !.result = "summary"])

TopicsNext ==
  \/ TopicsTool
  \/ TopicsRename
  \/ TopicsSaveArticle
  \/ TopicsSaveArticles

TopicsSpec == Init /\ [][TopicsNext]_vars

\* ------------------------------------------------- save_articles alone
\* The save_articles stage (content_scout.py 220-266) and the handback, on
\* every recommendation list, summary and saved-links list the stage can
\* be entered with; the topic's directory exists or not.
SaveStageInit ==
  /\ \E slug \in Slugs, existing \in ResaveLists, b \in Batches,
        summary \in {Summary("S"), Summary("Found articles."), Truncated(20)},
        there \in BOOLEAN :
       /\ ~there => existing = <<>>
       /\ topics = IF there THEN {slug} ELSE {}
       /\ dirs = topics
       /\ links = [s \in Slugs |-> IF s = slug THEN existing ELSE <<>>]
       /\ scout = [NoScout EXCEPT !.stage = "save", !.task = "t1",
                                  !.topic_slug = slug,
                                  !.preferences =
                                     Preferences(IF there THEN {slug} ELSE {},
                                                 slug),
                                  !.saved_urls = SavedUrls(existing),
                                  !.recommended = b, !.summary = summary]
       /\ topic_context = ScoutContext("t1", slug)
  /\ pc = "save"
  /\ messages = <<HumanMessage(1)>>
  /\ active_agent = "content_scout"
  /\ interrupted = FALSE
  /\ passedAs = "fresh"
  /\ lastResult = "none"
  /\ resumeVal = NoResume
  /\ parked = "none"
  /\ question = NoQuestion
  /\ inner = <<>>
  /\ invoked = "content_scout"
  /\ turn = 1
  /\ hops = 2
  /\ rounds = 0
  /\ trace = <<"llm", "resolve_topic", "load_context", "search",
               "search_evaluate">>

SaveStageNext ==
  \/ SaveArticles
  \/ ScoutReturn

SaveStageSpec == SaveStageInit /\ [][SaveStageNext]_vars

\* -------------------------------------------------- load_context alone
\* The load_context stage (content_scout.py 136-155) on every slug
\* resolve_topic can hand it (a topic, a directory without preferences
\* document, a slug without a directory, or none) and every list of saved
\* links.
LoadInit ==
  /\ \E slug \in LLMSlugs \cup {Null}, d \in SUBSET Slugs, t \in SUBSET Slugs,
        existing \in ResaveLists, task \in Tasks :
       /\ t \subseteq d
       /\ slug \notin d => existing = <<>>
       /\ topics = t
       /\ dirs = d
       /\ links = [s \in Slugs |-> IF s = slug THEN existing ELSE <<>>]
       /\ scout = [NoScout EXCEPT !.stage = "load", !.task = task,
                                  !.topic_slug = slug]
       /\ topic_context = ScoutContext(task, NoHint)
  /\ pc = "load"
  /\ messages = <<HumanMessage(1)>>
  /\ active_agent = "content_scout"
  /\ interrupted = FALSE
  /\ passedAs = "fresh"
  /\ lastResult = "none"
  /\ resumeVal = NoResume
  /\ parked = "none"
  /\ question = NoQuestion
  /\ inner = <<>>
  /\ invoked = "content_scout"
  /\ turn = 1
  /\ hops = 2
  /\ rounds = 0
  /\ trace = <<"llm", "resolve_topic">>

LoadNext == LoadContext

LoadSpec == LoadInit /\ [][LoadNext]_vars

\* ------------------------------------------------------- tavily_search
\* tavily_tools.py 13-52 as a function of what the search service does for
\* each query: the call raises, or it returns results, given by their
\* URLs.  A URL is well formed or one on which urlparse raises (line 41).
MaxQueries == 2
MaxResults == 2
BadUrl == "http://["
ResultUrls == Urls \cup {BadUrl}
TavilyResponses ==
  {[raises |-> TRUE, results |-> <<>>]}
  \cup {[raises |-> FALSE, results |-> r] :
          r \in SeqsUpTo(ResultUrls, MaxResults)}

\* an entry of `results`: a formatted result of query number q, or the note
\* that query number q failed
FormattedResult(q, url) == [kind |-> "result", query |-> q, url |-> url]
FailureNote(q) == [kind |-> "note", query |-> q, url |-> ""]

\* tavily_tools.py 37-44 for the results of query number q
RECURSIVE FormatResults(_, _, _, _)
FormatResults(results, seen_urls, out, q) ==
  IF results = <<>>
  THEN [seen_urls |-> seen_urls, out |-> out, raised |-> FALSE]
  ELSE LET url == Head(results)
       IN IF url \notin seen_urls
          THEN IF url = BadUrl
               THEN [seen_urls |-> seen_urls \cup {url}, out |-> out,
                     raised |-> TRUE]
               ELSE FormatResults(Tail(results), seen_urls \cup {url},
                                  Append(out, FormattedResult(q, url)), q)
          ELSE FormatResults(Tail(results), seen_urls, out, q)

\* the loop with one try block around it
RECURSIVE SearchQueries_abort(_, _, _, _)
SearchQueries_abort(queries, q, seen_urls, out) ==
  IF q > Len(queries) THEN out
  ELSE IF queries[q].raises
  THEN Append(out, FailureNote(q))
  ELSE LET r == FormatResults(queries[q].results, seen_urls, out, q)
       IN IF r.raised THEN Append(r.out, FailureNote(q))
          ELSE SearchQueries_abort(queries, q + 1, r.seen_urls, r.out)

\* tavily_tools.py 34-47: the loop over the queries, from query number q
RECURSIVE SearchQueries(_, _, _, _)
SearchQueries(queries, q, seen_urls, out) ==
  IF q > Len(queries) THEN out
  ELSE IF queries[q].raises
  THEN SearchQueries(queries, q + 1, seen_urls, Append(out, FailureNote(q)))
  ELSE LET r == FormatResults(queries[q].results, seen_urls, out, q)
       IN SearchQueries(queries, q + 1, r.seen_urls,
                        IF r.raised THEN Append(r.out, FailureNote(q))
                        ELSE r.out)

\* tavily_tools.py 26-52
tavily_search(api_key, queries) ==
  IF ~api_key
  THEN [text |-> "Error: TAVILY_API_KEY environment variable is not set",
        results |-> <<>>]
  ELSE LET results == SearchQueries(queries, 1, {}, <<>>)
       IN IF results = <<>>
          THEN [text |-> "No results found.", results |-> <<>>]
          ELSE [text |-> "Found results", results |-> results]

\* One call of the tool in the search loop of search_evaluate: inner holds
\* the call's environment and argument, trace what the tool returned.
TavilyInit ==
  /\ \E api_key \in BOOLEAN, queries \in SeqsUpTo(TavilyResponses, MaxQueries) :
       /\ ~api_key => Len(queries) = MaxQueries
       /\ inner = [api_key |-> api_key, queries |-> queries]
  /\ trace = [text |-> "", results |-> <<>>]
  /\ pc = "tools"
  /\ topics = {SlugA}
  /\ dirs = {SlugA}
  /\ links = [s \in Slugs |-> <<>>]
  /\ scout = [NoScout EXCEPT !.stage = "search", !.topic_slug = SlugA,
                             !.preferences = Preferences({SlugA}, SlugA),
                             !.task = "t1"]
  /\ messages = <<HumanMessage(1)>>
  /\ active_agent = "content_scout"
  /\ topic_context = ScoutContext("t1", SlugA)
  /\ interrupted = FALSE
  /\ passedAs = "fresh"
  /\ lastResult = "none"
  /\ resumeVal = NoResume
  /\ parked = "none"
  /\ question = NoQuestion
  /\ invoked = "content_scout"
  /\ turn = 1
  /\ hops = 2
  /\ rounds = 0

TavilySearch ==
  /\ pc = "tools"
  /\ trace' = tavily_search(inner.api_key, inner.queries)
  /\ pc' = "model"
  /\ UNCHANGED <<store, outer, orch, resumeVal, parked, question, inner,
                 scout, invoked, turn, hops, rounds>>

TavilyNext == TavilySearch

TavilySpec == TavilyInit /\ [][TavilyNext]_vars

\* ------------------------------------------------- the terminal front end
\* cli/app.py: the event loop thread of ContentScoutApp, the worker thread
\* of every submitted message (fetch_response) and the spinner thread of
\* every _start_spinner call (animate).  In this specification pc is the
\* position of the event loop thread, inner holds the fields thinking and
\* spinner_thread of the application (0 is None, otherwise the number of
\* the thread), trace holds the threads started so far, turn counts the
\* calls of Orchestrator.chat and rounds the Enter keys that were dropped.
\* A step is one read or write of a field.  The counter spinner_frame and
\* the list of displayed messages are left out.
MaxChats == 3
NoThread == 0
Thread(kind) == [kind |-> kind, at |-> IF kind = "worker" THEN "chat" ELSE "test"]
InFlight(threads) ==
  {i \in 1..Len(threads) : threads[i].kind = "worker" /\ threads[i].at = "chat"}

CliInit ==
  /\ pc = "idle"
  /\ inner = [thinking |-> FALSE, spinner_thread |-> NoThread]
  /\ trace = <<>>
  /\ turn = 0
  /\ rounds = 0
  /\ topics = {SlugA}
  /\ dirs = {SlugA}
  /\ links = [s \in Slugs |-> <<>>]
  /\ messages = <<>>
  /\ active_agent = Unset
  /\ topic_context = EmptyContext
  /\ interrupted = FALSE
  /\ passedAs = "none"
  /\ lastResult = "none"
  /\ resumeVal = NoResume
  /\ parked = "none"
  /\ question = NoQuestion
  /\ scout = NoScout
  /\ invoked = "none"
  /\ hops = 0

CliUnchanged ==
  UNCHANGED <<store, outer, orch, resumeVal, parked, question, scout,
              invoked, hops>>

\* app.py 103: whether the Enter key is handled
submit_(thinking) == ~thinking

\* app.py 101-104, 314-365: Enter with a message for the conversation in
\* the input line.  The key is dropped, or the message is displayed and
\* _start_spinner is about to run.
SubmitKey ==
  /\ pc = "idle"
  /\ IF submit_(inner.thinking)
     THEN /\ turn < MaxChats
          /\ pc' = "start"
          /\ UNCHANGED rounds
     ELSE /\ rounds < MaxRounds
          /\ rounds' = rounds + 1
          /\ UNCHANGED pc
  /\ UNCHANGED <<inner, trace, turn>>
  /\ CliUnchanged

\* app.py 294
StartSpinnerFlag ==
  /\ pc = "start"
  /\ inner' = [inner EXCEPT !.thinking = TRUE]
  /\ pc' = "spin"
  /\ UNCHANGED <<trace, turn, rounds>>
  /\ CliUnchanged

\* app.py 304-305
StartSpinnerThread ==
  /\ pc = "spin"
  /\ trace' = Append(trace, Thread("spinner"))
  /\ inner' = [inner EXCEPT !.spinner_thread = Len(trace) + 1]
  /\ pc' = "fetch"
  /\ UNCHANGED <<turn, rounds>>
  /\ CliUnchanged

\* app.py 383-384: the worker thread starts and calls Orchestrator.chat
\* (line 372)
StartWorker ==
  /\ pc = "fetch"
  /\ trace' = Append(trace, Thread("worker"))
  /\ turn' = turn + 1
  /\ pc' = "idle"
  /\ UNCHANGED <<inner, rounds>>
  /\ CliUnchanged

\* app.py 372-377: chat returns or raises and the finally block begins
ChatEnds(i) ==
  /\ trace[i].kind = "worker"
  /\ trace[i].at = "chat"
  /\ trace' = [trace EXCEPT ![i].at = "stop"]
  /\ UNCHANGED <<pc, inner, turn, rounds>>
  /\ CliUnchanged

\* app.py 309, run by a worker thread
WorkerStop(i) ==
  /\ trace[i].kind = "worker"
  /\ trace[i].at = "stop"
  /\ inner' = [inner EXCEPT !.thinking = FALSE]
  /\ trace' = [trace EXCEPT ![i].at = "test"]
  /\ UNCHANGED <<pc, turn, rounds>>
  /\ CliUnchanged

\* app.py 310
WorkerTest(i) ==
  /\ trace[i].kind = "worker"
  /\ trace[i].at = "test"
  /\ trace' = [trace EXCEPT ![i].at =
                 IF inner.spinner_thread = NoThread THEN "done" ELSE "join"]
  /\ UNCHANGED <<pc, inner, turn, rounds>>
  /\ CliUnchanged

\* app.py 311: the field is read again; join returns when the spinner
\* thread has ended or after 0.2 seconds.  On None the attribute lookup
\* raises and the thread ends.
WorkerJoin(i) ==
  /\ trace[i].kind = "worker"
  /\ trace[i].at = "join"
  /\ trace' = [trace EXCEPT ![i].at =
                 IF inner.spinner_thread = NoThread THEN "raised" ELSE "clear"]
  /\ UNCHANGED <<pc, inner, turn, rounds>>
  /\ CliUnchanged

\* app.py 312, then 380-381
WorkerClear(i) ==
  /\ trace[i].kind = "worker"
  /\ trace[i].at = "clear"
  /\ inner' = [inner EXCEPT !.spinner_thread = NoThread]
  /\ trace' = [trace EXCEPT ![i].at = "done"]
  /\ UNCHANGED <<pc, turn, rounds>>
  /\ CliUnchanged

\* app.py 298: the test of the loop of animate
SpinnerTest(i) ==
  /\ trace[i].kind = "spinner"
  /\ trace[i].at = "test"
  /\ trace' = [trace EXCEPT ![i].at =
                 IF inner.thinking THEN "sleep" ELSE "done"]
  /\ UNCHANGED <<pc, inner, turn, rounds>>
  /\ CliUnchanged

\* app.py 299-302
SpinnerTick(i) ==
  /\ trace[i].kind = "spinner"
  /\ trace[i].at = "sleep"
  /\ trace' = [trace EXCEPT ![i].at = "test"]
  /\ UNCHANGED <<pc, inner, turn, rounds>>
  /\ CliUnchanged

\* app.py 95-98: Ctrl-C or Ctrl-D; _stop_spinner begins on the event loop
\* thread (line 309)
ExitKey ==
  /\ pc = "idle"
  /\ inner' = [inner EXCEPT !.thinking = FALSE]
  /\ pc' = "x_test"
  /\ UNCHANGED <<trace, turn, rounds>>
  /\ CliUnchanged

\* app.py 310
ExitTest ==
  /\ pc = "x_test"
  /\ pc' = IF inner.spinner_thread = NoThread THEN "x_exit" ELSE "x_join"
  /\ UNCHANGED <<inner, trace, turn, rounds>>
  /\ CliUnchanged

\* app.py 311.  When the lookup raises, exit_ ends before line 99: the
\* event loop of prompt_toolkit reports the exception of a key handler and
\* goes on reading keys.
ExitJoin ==
  /\ pc = "x_join"
  /\ pc' = IF inner.spinner_thread = NoThread THEN "idle" ELSE "x_clear"
  /\ UNCHANGED <<inner, trace, turn, rounds>>
  /\ CliUnchanged

\* app.py 312
ExitClear ==
  /\ pc = "x_clear"
  /\ inner' = [inner EXCEPT !.spinner_thread = NoThread]
  /\ pc' = "x_exit"
  /\ UNCHANGED <<trace, turn, rounds>>
  /\ CliUnchanged

\* app.py 99: the application ends and no further key is handled
ExitApp ==
  /\ pc = "x_exit"
  /\ pc' = "exited"
  /\ UNCHANGED <<inner, trace, turn, rounds>>
  /\ CliUnchanged

WorkerThread ==
  \E i \in 1..Len(trace) :
    \/ ChatEnds(i)
    \/ WorkerStop(i)
    \/ WorkerTest(i)
    \/ WorkerJoin(i)
    \/ WorkerClear(i)

SpinnerThread ==
  \E i \in 1..Len(trace) : SpinnerTest(i) \/ SpinnerTick(i)

CliNext ==
  \/ SubmitKey
  \/ StartSpinnerFlag
  \/ StartSpinnerThread
  \/ StartWorker
  \/ ExitKey
  \/ ExitTest
  \/ ExitJoin
  \/ ExitClear
  \/ ExitApp
  \/ WorkerThread
  \/ SpinnerThread

CliSpec == CliInit /\ [][CliNext]_vars

\* --------------------------------------- store operations by tool call
\* One tools step of the topic manager's loop (base.py 52-57) on a reply of
\* the model that requests one store operation by name.  trace holds the
\* name and the arguments of the call, lastResult the text of the tool
\* message that answers it.
StoreOperations ==
  {"list_topics", "create_topic", "get_topic", "update_topic", "delete_topic",
   "rename_topic"}

\* topic_tools.py 43-190: the operation of that name
StoreOperation(st, name, slug, new_name) ==
  IF name = "rename_topic" THEN rename_topic(st, slug, new_name)
  ELSE RunTool(st, name, slug)

ManagerInit ==
  /\ \E st \in InitStores :
       /\ topics = st.topics
       /\ dirs = st.dirs
       /\ links = [s \in Slugs |-> IF s = SlugA THEN st.saved ELSE <<>>]
  /\ \E name \in StoreOperations, slug \in Slugs, new_name \in Names,
        task \in Tasks :
       /\ trace = <<name, slug, new_name>>
       /\ inner = <<HumanMessage(1),
                    AIMessage(2, <<"handoff_to_topics">>, ""),
                    ToolMessage(3, "transfer"),
                    AIMessage(4, <<name>>, "")>>
       /\ messages = <<HumanMessage(1),
                       AIMessage(2, <<"handoff_to_topics">>, ""),
                       ToolMessage(3, "transfer")>>
       /\ topic_context = TopicsContext(task)
  /\ active_agent = "topic_manager"
  /\ invoked = "topic_manager"
  /\ interrupted = FALSE
  /\ pc = "tools"
  /\ passedAs = "fresh"
  /\ lastResult = "none"
  /\ resumeVal = NoResume
  /\ parked = "none"
  /\ question = NoQuestion
  /\ scout = NoScout
  /\ turn = 1
  /\ hops = 2
  /\ rounds = 1

\* base.py 52-57: the tool node runs the requested tool when it is one of
\* the worker's tools and answers with an error note otherwise
ManagerTools ==
  /\ pc = "tools"
  /\ LET name == Last(inner).calls[1]
         st == IF name \in ToolsOf(invoked)
               THEN StoreOperation(Store(topics, dirs, links), name,
                                   trace[2], trace[3])
               ELSE [Store(topics, dirs, links)
                       EXCEPT !.result = "not a valid tool"]
     IN /\ topics' = st.topics
        /\ dirs' = st.dirs
        /\ links' = st.links
        /\ lastResult' = st.result
        /\ inner' = Append(inner, ToolMessage(FreshId(messages, inner),
                                              "tool result"))
  /\ pc' = "model"
  /\ UNCHANGED <<outer, interrupted, passedAs, resumeVal, parked, question,
                 scout, invoked, turn, hops, rounds, trace>>

ManagerNext == ManagerTools

ManagerSpec == ManagerInit /\ [][ManagerNext]_vars

\* ----------------------------------------------- replies without content
\* The turns of the router and the topic manager when the content of a
\* reply of the model is free: a reply, with or without tool calls, has
\* text or has none.  The router does not hand off to the Content Scout
\* here.
ReplyContents == {"", "answer"}
ContentReplies(worker) ==
  {calls \in RepliesOf(worker) :
     \A i \in 1..Len(calls) : calls[i] # "handoff_to_scout"}

\* ModelCall with the content of the reply drawn from ReplyContents
ModelCallContent ==
  /\ pc = "model"
  /\ \E calls \in ContentReplies(invoked), content \in ReplyContents :
       /\ rounds < MaxRounds \/ calls = NoCalls \/ calls \in HandoffOnly
       /\ hops < MaxHops \/ ~HasHandoff(calls)
       /\ LET loop == BeforeModel(inner)
              reply == AIMessage(FreshId(messages, loop), calls, content)
          IN IF calls = NoCalls
             THEN /\ messages' = AddMessages(messages, Append(loop, reply))
                  /\ inner' = <<>>
                  /\ resumeVal' = NoResume
                  /\ pc' = AfterNode(messages')
                  /\ UNCHANGED rounds
             ELSE /\ inner' = Append(loop, reply)
                  /\ pc' = "tools"
                  /\ rounds' = IF calls \in HandoffOnly THEN rounds
                                ELSE rounds + 1
                  /\ UNCHANGED <<messages, resumeVal>>
  /\ UNCHANGED <<store, active_agent, topic_context, orch, parked, question,
                 scout, invoked, turn, hops, trace>>

ResponseNext ==
  \/ Chat
  \/ ChatReturn
  \/ AgentNode
  \/ ModelCallContent
  \/ ToolsStep

ResponseSpec == Init /\ [][ResponseNext]_vars

\* ------------------------------------------------- dispatches of one turn
\* One chat call on the router and the topic manager, without the cap on
\* handoffs of Spec: a model may hand off whenever it is called.  The
\* config of graph.invoke (graph.py 91-94) sets no recursion_limit, so
\* langgraph's default holds: after that many executions of the agent node
\* in one invocation the graph raises GraphRecursionError.
RecursionLimit == 25

DispatchInit ==
  /\ topics = {SlugA}
  /\ dirs = {SlugA}
  /\ links = [s \in Slugs |-> <<>>]
  /\ messages = <<HumanMessage(1)>>
  /\ active_agent = Unset
  /\ topic_context = EmptyContext
  /\ interrupted = FALSE
  /\ pc = "agent"
  /\ passedAs = "fresh"
  /\ lastResult = "none"
  /\ resumeVal = NoResume
  /\ parked = "none"
  /\ question = NoQuestion
  /\ inner = <<>>
  /\ scout = NoScout
  /\ invoked = "none"
  /\ turn = 1
  /\ hops = 0
  /\ rounds = 0
  /\ trace = <<>>

\* graph.py 35-39 and 62-65: the agent node, with the step limit of the
\* invocation
AgentNodeStep ==
  /\ pc = "agent"
  /\ IF hops >= RecursionLimit
     THEN /\ pc' = "ret_raise"
          /\ UNCHANGED <<store, outer, orch, resumeVal, parked, question,
                         inner, scout, invoked, turn, hops, rounds, trace>>
     ELSE AgentNode

\* ModelCall without the cap on handoffs
ModelCallUncapped ==
  /\ pc = "model"
  /\ \E calls \in ContentReplies(invoked) :
       /\ rounds < MaxRounds \/ calls = NoCalls \/ calls \in HandoffOnly
       /\ LET loop == BeforeModel(inner)
              reply == AIMessage(FreshId(messages, loop), calls,
                                 IF calls = NoCalls THEN "answer" ELSE "")
          IN IF calls = NoCalls
             THEN /\ messages' = AddMessages(messages, Append(loop, reply))
                  /\ inner' = <<>>
                  /\ resumeVal' = NoResume
                  /\ pc' = AfterNode(messages')
                  /\ UNCHANGED rounds
             ELSE /\ inner' = Append(loop, reply)
                  /\ pc' = "tools"
                  /\ rounds' = IF calls \in HandoffOnly THEN rounds
                                ELSE rounds + 1
                  /\ UNCHANGED <<messages, resumeVal>>
  /\ UNCHANGED <<store, active_agent, topic_context, orch, parked, question,
                 scout, invoked, turn, hops, trace>>

DispatchNext ==
  \/ AgentNodeStep
  \/ ModelCallUncapped
  \/ ToolsStep
  \/ ChatReturn
  \/ ChatRaise

\* every step of the turn that can be taken is taken: the graph runs its
\* next node, tool calls return and chat returns or raises.  Model calls
\* return too: a model call is possible exactly when pc = "model", so the
\* last conjunct is weak fairness of ModelCallUncapped with its enabling
\* condition written out.
DispatchFair ==
  /\ WF_vars(AgentNodeStep)
  /\ WF_vars(ToolsStep)
  /\ WF_vars(ChatReturn)
  /\ WF_vars(ChatRaise)
  /\ ([]<>(pc # "model") \/ []<><<ModelCallUncapped>>_vars)

DispatchSpec == DispatchInit /\ [][DispatchNext]_vars /\ DispatchFair

\* ------------------------------------------------- topic selection (CLI)
\* cli/state.py: the selected topic of the prompt.  The list on disk is
\* <<dirs, topics>>, the TopicState object is inner, and trace holds what
\* the calls of cycle returned.
MaxCycles == 9

TopicLists == {SortedSeq(S) : S \in SUBSET {SlugA, SlugAB, SlugZ}}

TopicState(list, index) == [_topics |-> list, _index |-> index]

\* state.py 23-28
selected(st) ==
  IF st._index >= 0 /\ st._index < Len(st._topics)
  THEN st._topics[st._index + 1]
  ELSE Null

\* state.py 14-16, 45-46
refresh_topics(st, d, t) == [st EXCEPT !._topics = get_topic_slugs(d, t)]

\* cycle without the step back to "no selection" of lines 52-53
cycle_nowrap(st, d, t) ==
  LET st1 == IF st._topics = <<>> THEN refresh_topics(st, d, t) ELSE st
  IN IF st1._topics = <<>> THEN st1
     ELSE [st1 EXCEPT !._index = st1._index + 1]

\* state.py 43-54: the object after the call; the call returns selected of it
cycle(st, d, t) ==
  LET st1 == IF st._topics = <<>> THEN refresh_topics(st, d, t) ELSE st
      next == st1._index + 1
  IN IF st1._topics = <<>> THEN st1
     ELSE [st1 EXCEPT !._index = IF next >= Len(st1._topics) THEN -1 ELSE next]

\* state.py 9-12, 62: the object is made when the program starts; the list
\* it holds is the one read at a start or at an earlier refresh, so it can
\* differ from the list on disk now
TopicsCliInit ==
  /\ topics \in SUBSET {SlugA, SlugAB, SlugZ}
  /\ dirs = topics
  /\ \E list \in TopicLists : inner = TopicState(list, -1)
  /\ trace = <<>>
  /\ pc = "idle"
  /\ turn = 0
  /\ rounds = 0
  /\ links = [s \in Slugs |-> <<>>]
  /\ messages = <<>>
  /\ active_agent = Unset
  /\ topic_context = EmptyContext
  /\ interrupted = FALSE
  /\ passedAs = "none"
  /\ lastResult = "none"
  /\ resumeVal = NoResume
  /\ parked = "none"
  /\ question = NoQuestion
  /\ scout = NoScout
  /\ invoked = "none"
  /\ hops = 0

\* app.py 107-109: the key that cycles the topic
CycleKey ==
  /\ pc = "idle"
  /\ Len(trace) < MaxCycles
  /\ inner' = cycle(inner, dirs, topics)
  /\ trace' = Append(trace, selected(inner'))
  /\ UNCHANGED <<store, outer, orch, pc, passedAs, lastResult, resumeVal,
                 parked, question, scout, invoked, turn, hops, rounds>>

TopicsCliNext == CycleKey

TopicsCliSpec == TopicsCliInit /\ [][TopicsCliNext]_vars

TypeOK ==
  /\ topics \subseteq dirs
  /\ dirs \subseteq Slugs
  /\ interrupted \in BOOLEAN
  /\ pc \in {"idle", "agent", "model", "tools", "resolve", "load", "search",
             "save", "handback", "ret_response", "ret_interrupt", "ret_raise"}
  /\ turn \in 0..MaxTurns

\* ================================================================ claims
ScoutStages == {"resolve", "load", "search", "save", "handback"}
IsPlainReply(m) == m.type = "ai" /\ m.calls = NoCalls

\* C1: while the router is the active worker topic_context is empty, and a
\* non-empty topic_context is the payload of the router's handoff to the
\* specialist that is still active; so it is empty after every return to
\* the router.
C1_HandoffExclusivity ==
  /\ ActiveWorker(active_agent) = "supervisor" => topic_context = EmptyContext
  /\ topic_context # EmptyContext =>
       \/ /\ active_agent = "topic_manager"
          /\ \E t \in Tasks : topic_context = TopicsContext(t)
       \/ /\ active_agent = "content_scout"
          /\ \E t \in Tasks, h \in Hints : topic_context = ScoutContext(t, h)

\* the router is active again right after a handoff_to_supervisor
C1_Witness ==
  /\ active_agent = "supervisor"
  /\ topic_context = EmptyContext
  /\ messages # <<>>
  /\ Last(messages).content = "completed"

\* C2: active_agent names a registered worker (the supervisor when it was
\* never set), the lookup of agent_node never fails, and the worker that
\* runs is the one worker the dispatch looked up.
C2_ActiveAgentRegistered ==
  /\ ActiveWorker(active_agent) \in Agents
  /\ invoked \in Agents \cup {"none"}
  /\ pc \in {"model", "tools"} =>
       /\ invoked \in {"supervisor", "topic_manager"}
       /\ invoked = ActiveWorker(active_agent)
  /\ pc \in ScoutStages =>
       /\ invoked = "content_scout"
       /\ active_agent = "content_scout"

\* a dispatch of a resumed call finds the topic manager, set by a handoff
C2_Witness ==
  /\ passedAs = "resume"
  /\ invoked = "topic_manager"
  /\ pc = "tools"

\* C3: a handoff of the router makes the target of a requested handoff the
\* active worker, sets topic_context to that handoff's payload, appends the
\* router's reply and exactly one transfer note, and the next step of the
\* same chat call invokes the target on the unchanged history.
C3_HandoffStep ==
  LET calls == Last(inner).calls
      n == Len(messages)
  IN (pc = "tools" /\ invoked = "supervisor" /\ HasHandoff(calls)) =>
       /\ \/ /\ "handoff_to_topics" \in Range(calls)
             /\ active_agent' = "topic_manager"
             /\ \E t \in Tasks : topic_context' = TopicsContext(t)
             /\ Last(messages').content = "transfer_topics"
          \/ /\ "handoff_to_scout" \in Range(calls)
             /\ active_agent' = "content_scout"
             /\ \E t \in Tasks, h \in Hints :
                  topic_context' = ScoutContext(t, h)
             /\ Last(messages').content = "transfer_scout"
       /\ Len(messages') = n + 2
       /\ SubSeq(messages', 1, n) = messages
       /\ messages'[n + 1].type = "ai"
       /\ messages'[n + 1].calls = calls
       /\ messages'[n + 2].type = "tool"
       /\ pc' = "agent"
       /\ turn' = turn

C3_Redispatch ==
  pc = "agent" =>
    /\ invoked' = ActiveWorker(active_agent)
    /\ pc' \in {"model", "tools"} \cup ScoutStages
    /\ turn' = turn
    /\ messages' = messages

C3_HandoffToTarget == [][C3_HandoffStep /\ C3_Redispatch]_vars

\* the topic manager runs on the history that ends with the transfer note
C3_Witness ==
  /\ pc = "model"
  /\ invoked = "topic_manager"
  /\ inner = messages
  /\ Last(messages).content = "transfer_topics"
  /\ \E t \in Tasks : topic_context = TopicsContext(t)

\* C4: when a worker invocation has returned, the agent node is entered
\* again iff the latest stored message is not a plain assistant reply, and
\* the turn ends iff it is one.
C4_Step ==
  (pc \in {"model", "tools", "handback"} /\ pc' \in {"agent", "ret_response"})
    => /\ messages' # <<>>
       /\ (pc' = "agent") <=> ~IsPlainReply(Last(messages'))
       /\ (pc' = "ret_response") <=> IsPlainReply(Last(messages'))

C4_ContinuationRule == [][C4_Step]_vars

\* the node is entered again on a history that ends with a transfer note
C4_Witness ==
  /\ pc = "agent"
  /\ messages # <<>>
  /\ Last(messages).type = "tool"
  /\ invoked \in {"supervisor", "topic_manager"}

\* C5: a chat call enters the graph as a resume value iff the call before
\* it returned a suspension; every other call, the first included, enters
\* as a fresh user message.
C5_ResumeIffSuspended ==
  (pc = "agent" /\ invoked = "none") =>
    ((passedAs = "resume") <=> (lastResult = "interrupt"))

\* C6: a run that suspends and resumes does not repeat the work done before
\* the suspension: resolve_topic calls the model at most once per run.
C6_OneModelCallPerRun == Count(trace, "llm") <= 1

\* C7: the stages of a run complete in the order resolve_topic,
\* load_context, search_evaluate, save_articles, each at most once, and a
\* run that has not reached its end is stopped only at a suspension inside
\* resolve_topic.
StageOrder == <<"resolve_topic", "load_context", "search_evaluate",
                "save_articles">>
IsStageEvent(e) == e \in Range(StageOrder)

C7_LinearPipeline ==
  LET done == SelectSeq(trace, IsStageEvent)
  IN /\ Len(done) <= Len(StageOrder)
     /\ done = SubSeq(StageOrder, 1, Len(done))
     /\ (scout.stage \in {"resolve", "load", "search", "save"}
         /\ pc \in {"idle", "ret_interrupt", "ret_raise", "ret_response"})
        => (scout.stage = "resolve" /\ parked = "resolve")

\* C8: with no topic, resolve_topic suspends before any model call, and the
\* resumed run completes with topic_slug = null instead of raising.
C8_NoTopicsRoundTrip ==
  /\ (parked = "resolve" /\ question.kind = "no_topics") => trace = <<>>
  /\ (question.kind = "no_topics" /\ passedAs = "resume"
      /\ invoked = "content_scout") => pc # "ret_raise"

\* C9: once resolution has ended with topic_slug = null, no stage searches,
\* calls the model or raises: the run ends with a result.
C9_NullTopicIsNoOp ==
  (scout.stage # "resolve" /\ scout.topic_slug = Null) =>
    /\ pc # "ret_raise"
    /\ "search" \notin Range(trace)

\* C10: every URL occurs at most once in the saved-links list of a topic,
\* after any sequence of save operations on lists that had no duplicates.
C10_UrlsUnique == \A s \in Slugs : NoDuplicateUrls(links[s])

\* C11: a save run a second time with the same recommendation leaves the
\* saved-links list as the first run left it, and after a run the list holds
\* exactly one entry for the URL of every recommendation that carries one.
EntriesFor(list, url) == Cardinality({i \in 1..Len(list) : list[i].url = url})

OneEntryEach(list, recommended) ==
  \A i \in 1..Len(recommended) :
    recommended[i].url # "" => EntriesFor(list, recommended[i].url) = 1

C11_Step ==
  /\ rounds = 1 => links' = links
  /\ rounds' >= 1 => OneEntryEach(links'[scout.topic_slug], scout.recommended)

C11_SaveIdempotent == [][C11_Step]_vars

\* C12: for every content the search loop can end with, search_evaluate
\* returns a recommendation list and a summary and does not raise; text
\* that json.loads rejects gives an empty list and the text as the summary.
C12_SearchNeverRaises ==
  LET c == Last(inner).content
      data == IF c.fence # NoFence THEN c.fence ELSE c.whole
  IN (pc # "search") =>
       /\ pc = "save"
       /\ (c.chars > 0 /\ data.kind = "malformed") =>
            /\ scout.recommended = <<>>
            /\ scout.summary.base = "reply text"

\* C13: when search_evaluate returns on a reply with content, a ```json
\* fence in the reply alone gives (articles, summary); without a fence the
\* whole reply is parsed; when json.loads rejects the parsed text the list
\* is empty and the summary is the reply cut to 500 characters.
FromObject(o) ==
  /\ o.has_articles => scout.recommended = o.articles
  /\ o.has_summary => scout.summary.base = "S"
  /\ ~o.has_summary => scout.summary.base # "reply text"

DegradedTo(c) ==
  /\ scout.recommended = <<>>
  /\ scout.summary.base = "reply text"
  /\ scout.summary.chars = (IF c.chars <= 500 THEN c.chars ELSE 500)

C13_ParsingOrder ==
  LET c == Last(inner).content
  IN (pc = "save" /\ c.chars > 0) =>
       /\ (c.fence # NoFence /\ c.fence.kind = "object") => FromObject(c.fence)
       /\ (c.fence # NoFence /\ c.fence.kind = "malformed") => DegradedTo(c)
       /\ (c.fence = NoFence /\ c.whole.kind = "object") => FromObject(c.whole)
       /\ (c.fence = NoFence /\ c.whole.kind = "malformed") => DegradedTo(c)

\* a reply longer than the limit whose fence holds other articles than the
\* text around it has been parsed
C13_Witness ==
  LET c == Last(inner).content
  IN /\ pc = "save"
     /\ c.chars > SummaryLimit
     /\ c.fence.kind = "object"
     /\ c.whole.kind = "object"
     /\ c.fence.has_articles
     /\ c.whole.has_articles
     /\ c.fence.articles # c.whole.articles
     /\ scout.recommended = c.fence.articles

\* C14: at every model call of the loop the payload is the last
\* min(L, 16) of the loop's L messages, in their order.
C14_Step ==
  (pc = "model" /\ pc' = "request") =>
    LET L == Len(inner)
        n == IF L <= 16 THEN L ELSE 16
    IN /\ Len(inner') = n
       /\ inner' = SubSeq(inner, L - n + 1, L)

C14_TrimBound == [][C14_Step]_vars

\* C15: the stored history only grows at its end: every step keeps the
\* stored messages, in their order and unchanged, as a prefix of the new
\* history.
C15_Step ==
  /\ Len(messages') >= Len(messages)
  /\ SubSeq(messages', 1, Len(messages)) = messages

C15_HistoryAppendOnly == [][C15_Step]_vars

\* a history longer than MAX_MESSAGES went through the hook, and the
\* handoff that followed re-submitted the router's reply with its note
C15_Witness ==
  /\ pc = "agent"
  /\ Len(messages) = MAX_MESSAGES + 3
  /\ SubSeq(messages, 1, MAX_MESSAGES + 1) = History(MAX_MESSAGES + 1)
  /\ messages[MAX_MESSAGES + 2].type = "ai"
  /\ Last(messages).content = "transfer_topics"

\* In ResolveSpec: the replies of the resolution model to its first and
\* second call, and the sorted list of the topics.
FirstResolution == inner[1].content
SecondResolution == inner[2].content
Available == AvailableTopics(topics)
HighAndKnown(r) == r.confidence = "high" /\ r.slug \in topics

\* C16: with a topic available, the first execution of resolve_topic
\* returns without suspending iff the model's resolution is 'high' with an
\* available slug, and then returns that slug; otherwise it suspends, and
\* the execution on resume returns without a second suspension.
C16_Step ==
  /\ (pc = "resolve" /\ trace = <<>>) =>
       /\ (pc' = "load") <=> HighAndKnown(FirstResolution)
       /\ pc' = "load" =>
            (scout'.topic_slug = FirstResolution.slug /\ parked' = "none")
       /\ pc' # "load" => (pc' = "ret_interrupt" /\ parked' = "resolve")
  /\ (pc = "resolve" /\ trace # <<>>) =>
       (pc' = "load" /\ parked' = "none" /\ Count(trace, "resolve_topic") = 0)

C16_SuspendUnlessHighAndKnown == [][C16_Step]_vars

\* a run that suspended once has returned from resolve_topic
C16_Witness ==
  /\ pc = "load"
  /\ passedAs = "resume"
  /\ ~HighAndKnown(FirstResolution)
  /\ Count(trace, "resolve_topic") = 1

\* C17 as stated: resolution returns a known slug at high confidence
\* without suspending, or suspends with a question that lists all
\* available slugs.
C17_TwoOutcomes ==
  /\ (pc = "load" /\ passedAs = "fresh") =>
       (HighAndKnown(FirstResolution)
        /\ scout.topic_slug = FirstResolution.slug)
  /\ (pc = "ret_interrupt" /\ parked = "resolve") => question.listed = topics

\* C17, amended: resolution returns a known slug at high confidence without
\* suspending, or suspends with a question that names the one available
\* slug the model guessed, or, without such a guess, lists all available
\* slugs.
C17_TwoOutcomesAmended ==
  /\ (pc = "load" /\ passedAs = "fresh") =>
       (HighAndKnown(FirstResolution)
        /\ scout.topic_slug = FirstResolution.slug)
  /\ (pc = "ret_interrupt" /\ parked = "resolve") =>
       \/ /\ question.kind = "confirm"
          /\ question.slug = FirstResolution.slug
          /\ question.slug \in topics
          /\ question.listed = {question.slug}
       \/ /\ question.kind = "which"
          /\ FirstResolution.slug \notin topics
          /\ question.listed = topics

\* the run is suspended on the question about one of two topics
C17_Witness ==
  /\ pc = "ret_interrupt"
  /\ parked = "resolve"
  /\ question.kind = "confirm"
  /\ Cardinality(topics) = 2

\* C18: on resume with a response that is not 'yes' or 'y', resolve_topic
\* returns the first slug of the sorted list that equals the lower-cased,
\* trimmed response, contains it or is contained in it, and null when no
\* slug does.
Matches(r, t) == r = t \/ IsSubstring(r, t) \/ IsSubstring(t, r)

FirstMatch(r, available) ==
  LET hits == {i \in 1..Len(available) : Matches(r, available[i])}
  IN IF hits = {} THEN Null
     ELSE available[CHOOSE i \in hits : \A j \in hits : i <= j]

C18_Step ==
  LET r == Strip(Lower(resumeVal))
  IN (pc = "resolve" /\ resumeVal # NoResume /\ r \notin {Yes, Y}) =>
       /\ \A i, j \in 1..Len(Available) :
            i < j => StrLess(Available[i], Available[j])
       /\ pc' = "load"
       /\ scout'.topic_slug = FirstMatch(r, Available)

C18_FirstMatchWins == [][C18_Step]_vars

\* C19: on resume with 'yes' or 'y', resolve_topic returns the slug the
\* surfaced question asked to confirm, whatever the model returns in the
\* execution on resume.
C19_Step ==
  LET r == Strip(Lower(resumeVal))
  IN (pc = "resolve" /\ resumeVal # NoResume /\ r \in {Yes, Y}
      /\ question.kind = "confirm") =>
       /\ pc' = "load"
       /\ scout'.topic_slug = question.slug

C19_YesAcceptsGuess == [][C19_Step]_vars

\* C20: while the Content Scout runs the outer state does not change, and
\* its completion changes it by one handback: the router is the active
\* worker, topic_context is empty, one plain assistant message is appended
\* to the unchanged history, and the turn ends without another dispatch.
C20_Step ==
  /\ pc \in {"resolve", "load", "search", "save"} =>
       /\ messages' = messages
       /\ active_agent' = active_agent
       /\ topic_context' = topic_context
  /\ pc = "handback" =>
       /\ active_agent' = "supervisor"
       /\ topic_context' = EmptyContext
       /\ Len(messages') = Len(messages) + 1
       /\ SubSeq(messages', 1, Len(messages)) = messages
       /\ IsPlainReply(Last(messages'))
       /\ Last(messages').content = "summary"
       /\ pc' = "ret_response"
       /\ hops' = hops
       /\ invoked' = "content_scout"

C20_SingleHandback == [][C20_Step]_vars

\* the turn of a completed Content Scout run is about to return
C20_Witness ==
  /\ pc = "ret_response"
  /\ invoked = "content_scout"
  /\ active_agent = "supervisor"
  /\ topic_context = EmptyContext
  /\ Last(messages).content = "summary"
  /\ messages[Len(messages) - 1].content = "transfer_scout"

\* C21: when the tool-call loop of a specialist ends with a plain answer,
\* i.e. without a handoff_to_supervisor, active_agent and topic_context
\* stay as they are, the outer loop ends the turn, and the chat call
\* returns that answer as its response and raises nothing.
C21_Step ==
  /\ (pc = "model" /\ invoked = "topic_manager" /\ pc' # "tools") =>
       /\ active_agent' = active_agent
       /\ topic_context' = topic_context
       /\ pc' = "ret_response"
       /\ IsPlainReply(Last(messages'))
       /\ Last(messages').id \notin {messages[i].id : i \in 1..Len(messages)}
       /\ ChatResponse(messages') = <<Last(messages')>>
  /\ (pc = "ret_response" /\ invoked = "topic_manager") =>
       /\ lastResult' = "response"
       /\ UNCHANGED <<outer, store>>
C21_SpecialistPlainAnswer == [][C21_Step]_vars

\* the topic manager has just answered without handing back
C21_Witness ==
  /\ pc = "ret_response"
  /\ invoked = "topic_manager"
  /\ active_agent = "topic_manager"
  /\ topic_context # EmptyContext
  /\ IsPlainReply(Last(messages))

\* C22: a handoff takes effect only from a worker it is permitted to:
\* a transfer to the topic manager or the Content Scout (its note, and
\* active_agent set to a specialist) only in a step of the router while
\* the router is the active worker, and a return to the router (the note
\* of handoff_to_supervisor, and active_agent set to the router) only in a
\* step of a specialist that is the active worker; whatever calls the
\* model requests.
Specialists == {"topic_manager", "content_scout"}
NewNote(content) ==
  /\ Len(messages') > Len(messages)
  /\ Last(messages').type = "tool"
  /\ Last(messages').content = content
C22_Step ==
  /\ (NewNote("transfer_topics") \/ NewNote("transfer_scout")) =>
       /\ invoked = "supervisor"
       /\ ActiveWorker(active_agent) = "supervisor"
  /\ NewNote("completed") =>
       /\ invoked = "topic_manager"
       /\ active_agent = "topic_manager"
  /\ active_agent' # active_agent =>
       /\ active_agent' \in Specialists =>
            /\ invoked = "supervisor"
            /\ ActiveWorker(active_agent) = "supervisor"
       /\ active_agent' = "supervisor" =>
            /\ invoked \in Specialists
            /\ active_agent = invoked
C22_HandoffsByPermittedWorker == [][C22_Step]_vars

\* the router has requested handoff_to_supervisor, which is none of its
\* tools: the call was answered with an error note and the router is
\* still the active worker
C22_Witness ==
  /\ pc = "model"
  /\ invoked = "supervisor"
  /\ ActiveWorker(active_agent) = "supervisor"
  /\ Len(inner) >= 2
  /\ Last(inner).content = "not a valid tool"
  /\ "handoff_to_supervisor" \in Range(inner[Len(inner) - 1].calls)

\* C23: one invocation of the router lets at most one handoff take effect.
\* A step of the router's loop either leaves active_agent and
\* topic_context as they are, or it is the step that ends the invocation:
\* then active_agent and topic_context are the target and the payload of
\* one and the same requested handoff and exactly one transfer note is
\* added, however many calls the reply requests.  A direct answer leaves
\* both unchanged.
TransferNotes(msgs) ==
  {i \in 1..Len(msgs) :
     msgs[i].type = "tool"
     /\ msgs[i].content \in {"transfer_topics", "transfer_scout"}}
C23_Step ==
  (invoked = "supervisor" /\ pc \in {"model", "tools"}) =>
    \/ /\ UNCHANGED <<active_agent, topic_context>>
       /\ Cardinality(TransferNotes(messages'))
            = Cardinality(TransferNotes(messages))
    \/ /\ pc = "tools"
       /\ pc' = "agent"
       /\ Cardinality(TransferNotes(messages'))
            = Cardinality(TransferNotes(messages)) + 1
       /\ \/ /\ "handoff_to_topics" \in Range(Last(inner).calls)
             /\ active_agent' = "topic_manager"
             /\ \E t \in Tasks : topic_context' = TopicsContext(t)
          \/ /\ "handoff_to_scout" \in Range(Last(inner).calls)
             /\ active_agent' = "content_scout"
             /\ \E t \in Tasks, h \in Hints :
                  topic_context' = ScoutContext(t, h)
C23_OneHandoffPerInvocation == [][C23_Step]_vars

\* a reply of the router that requested both handoffs has taken effect
C23_Witness ==
  /\ pc = "agent"
  /\ active_agent \in Specialists
  /\ Len(messages) >= 2
  /\ Last(messages).content \in {"transfer_topics", "transfer_scout"}
  /\ {"handoff_to_topics", "handoff_to_scout"}
       \subseteq Range(messages[Len(messages) - 1].calls)

\* C24: after any sequence of store operations the listed slugs are exactly
\* the directories that hold a preferences document, and resolve_topic
\* reads the same list: a directory without one is not listed, and no
\* resolution that names it passes the test of a known topic.
C24_ListedIffPreferences ==
  /\ list_topics(Store(topics, dirs, links)) = {d \in dirs : d \in topics}
  /\ Range(AvailableTopics(topics)) = list_topics(Store(topics, dirs, links))
  /\ \A d \in dirs \ topics :
       /\ d \notin list_topics(Store(topics, dirs, links))
       /\ \A r \in Resolutions :
            r.slug = d => ~Accepted(r, get_topic_slugs(dirs, topics))

\* a directory that holds saved links and no preferences document, next to
\* a topic, after a save into it
C24_Witness ==
  /\ \E d \in dirs \ topics : links[d] # <<>>
  /\ topics # {}
  /\ trace # <<>>
  /\ trace[1] \in {"save_article", "save_articles"}

\* C25: get_topic, update_topic, delete_topic, rename_topic and
\* save_article, called on a slug that has no directory or whose directory
\* holds no preferences document, return a message that reports no
\* success and leave the store as it is.
StoreTools ==
  {"get_topic", "update_topic", "delete_topic", "rename_topic", "save_article"}
SuccessMessages ==
  {"preferences and links", "updated", "deleted", "renamed", "saved"}
C25_Step ==
  (trace'[1] \in StoreTools /\ trace'[2] \notin topics) =>
    /\ UNCHANGED store
    /\ lastResult' \notin SuccessMessages
C25_MissingTopicIsRefused == [][C25_Step]_vars

\* C26: save_articles on a non-empty recommendation list extends the prior
\* summary by the URLs of the entries this run appended to the saved-links
\* list, in the order it appended them, when it appended one; it extends
\* it by the note that nothing new was saved when it appended none.
AppendedUrls(before, after) ==
  [i \in 1..(Len(after) - Len(before)) |-> after[Len(before) + i].url]
C26_Step ==
  (pc = "save" /\ scout.recommended # <<>> /\ pc' = "handback") =>
    LET appended == AppendedUrls(links[scout.topic_slug],
                                 links'[scout.topic_slug])
    IN IF appended # <<>>
       THEN scout'.summary = [scout.summary EXCEPT !.note = "saved",
                                                   !.saved = appended]
       ELSE scout'.summary = [scout.summary EXCEPT !.note = "no new articles"]
C26_SummaryListsAppended == [][C26_Step]_vars

\* C27: with an empty recommendation list save_articles passes the summary
\* on as it is and leaves the saved links alone: the store is unchanged
\* and nothing is raised, also when the topic has no directory.
C27_Step ==
  (pc = "save" /\ scout.recommended = <<>>) =>
    /\ scout'.summary = scout.summary
    /\ UNCHANGED store
    /\ pc' = "handback"
C27_EmptyListPassesSummary == [][C27_Step]_vars

\* save_articles has returned on an empty list for a topic without a
\* directory
C27_Witness ==
  /\ pc = "handback"
  /\ scout.stage = "end"
  /\ scout.recommended = <<>>
  /\ scout.summary.note = "none"
  /\ scout.topic_slug \notin dirs

\* C28: load_context calls no model and leaves the store unchanged, and
\* what it returns is the text of the topic's preferences document, or the
\* default text when the topic has none, with the URLs of the topic's
\* saved links in stored order, or no URL when it has no saved links; the
\* rest of the pipeline's state is as before.
C28_Step ==
  pc = "load" =>
    /\ UNCHANGED store
    /\ Count(trace', "llm") = Count(trace, "llm")
    /\ pc' = "search" =>
         LET slug == scout.topic_slug
             stored == IF slug \in dirs THEN links[slug] ELSE <<>>
         IN /\ scout'.preferences =
                 IF slug \in topics
                 THEN [text |-> "preferences.md", of |-> slug]
                 ELSE [text |-> "No preferences found.", of |-> Null]
            /\ Len(scout'.saved_urls) = Len(stored)
            /\ \A i \in 1..Len(stored) : scout'.saved_urls[i] = stored[i].url
            /\ scout' = [scout EXCEPT !.preferences = scout'.preferences,
                                      !.saved_urls = scout'.saved_urls,
                                      !.stage = "search"]
C28_LoadContextPureRead == [][C28_Step]_vars

\* load_context has returned the default text and two saved URLs in stored
\* order for a directory without preferences document
C28_Witness ==
  /\ pc = "search"
  /\ scout.topic_slug \in dirs \ topics
  /\ scout.preferences.text = "No preferences found."
  /\ scout.saved_urls = <<"u2", "u1">>

\* C29: in tavily_search a failing query does not end the batch.  A query
\* fails when its search call raises or when formatting one of its results
\* raises.  The output holds exactly one note for every failing query and
\* none for the others, its entries are in the order of the queries, and
\* every well-formed URL returned for a query that did not fail is among
\* the results, whichever queries failed before or after it.
Fails(queries, q) ==
  \/ queries[q].raises
  \/ /\ BadUrl \in Range(queries[q].results)
     /\ \A p \in 1..(q - 1) : BadUrl \notin Range(queries[p].results)
NotesFor(out, q) ==
  {i \in 1..Len(out) : out[i].kind = "note" /\ out[i].query = q}
C29_FailureIsPerQuery ==
  (pc = "model" /\ inner.api_key) =>
    LET queries == inner.queries
        out == trace.results
    IN /\ \A q \in 1..Len(queries) :
            Cardinality(NotesFor(out, q)) = IF Fails(queries, q) THEN 1 ELSE 0
       /\ \A i \in 1..Len(out) : out[i].query \in 1..Len(queries)
       /\ \A i, j \in 1..Len(out) : i < j => out[i].query <= out[j].query
       /\ \A q \in 1..Len(queries) :
            ~Fails(queries, q) =>
              \A url \in Range(queries[q].results) \ {BadUrl} :
                \E i \in 1..Len(out) :
                  out[i].kind = "result" /\ out[i].url = url

\* the first query failed and the second one's result is returned after
\* the note
C29_Witness ==
  /\ pc = "model"
  /\ inner.api_key
  /\ Len(inner.queries) = 2
  /\ inner.queries[1].raises
  /\ trace.results = <<FailureNote(1), FormattedResult(2, "u1")>>

\* C30: at any time at most one call of Orchestrator.chat is running: the
\* worker threads that are inside chat (app.py 372) are never two.
C30_OneChatInFlight ==
  Cardinality(InFlight(trace)) <= 1

\* C31: every store operation the topic manager's model requests (list,
\* create, get, update, delete, rename) is run by the tools step: the store
\* and the answer after the step are those of the operation.
C31_Step ==
  (pc = "tools" /\ pc' = "model" /\ trace[1] \in StoreOperations) =>
    LET st == StoreOperation(Store(topics, dirs, links), trace[1], trace[2],
                             trace[3])
    IN /\ lastResult' = st.result
       /\ topics' = st.topics
       /\ dirs' = st.dirs
       /\ links' = st.links
C31_ManagerRunsEveryOperation == [][C31_Step]_vars

\* C32: a slug that resolve_topic returns is not null only when it is one
\* of the available topics the stage read, whichever path returned it.
C32_Step ==
  (pc = "resolve" /\ pc' = "load" /\ scout'.topic_slug # Null) =>
    scout'.topic_slug \in Range(AvailableTopics(topics))
C32_ResolvedSlugIsAvailable == [][C32_Step]_vars

\* C33: between chat calls the flag _interrupted is set exactly when the
\* checkpoint of the thread holds an interrupt that waits for its reply,
\* whatever calls came before, those that raised included.
C33_FlagIffPendingInterrupt ==
  pc = "idle" => (interrupted <=> parked # "none")

\* C34: when the model of the router or of the topic manager is called,
\* every assistant message of the history it is called on is followed by
\* one tool message for each tool call it requests, and by no more.  The
\* tool messages that answer an assistant message are those that follow it
\* up to the next message of another type.
RECURSIVE ToolResultsAfter(_, _)
ToolResultsAfter(msgs, i) ==
  IF i < Len(msgs) /\ msgs[i + 1].type = "tool"
  THEN 1 + ToolResultsAfter(msgs, i + 1)
  ELSE 0
EveryCallAnswered(msgs) ==
  \A i \in 1..Len(msgs) :
    msgs[i].type = "ai" => ToolResultsAfter(msgs, i) = Len(msgs[i].calls)
C34_EveryCallAnswered ==
  (pc = "model" /\ invoked \in {"supervisor", "topic_manager"}) =>
    EveryCallAnswered(inner)

\* C35: the response of a chat call that was passed a new user message and
\* ends without suspension is the content of an assistant message stored
\* after that user message; when no assistant message with content was
\* stored after it, the response is 'No response generated.'.
LastHuman(msgs) ==
  LET idx == {i \in 1..Len(msgs) : msgs[i].type = "human"}
  IN CHOOSE i \in idx : \A j \in idx : j <= i
C35_ResponseIsOfThisTurn ==
  (pc = "ret_response" /\ passedAs = "fresh") =>
    LET produced == {i \in (LastHuman(messages) + 1)..Len(messages) :
                       messages[i].type = "ai" /\ messages[i].content # ""}
        response == ChatResponse(messages)
    IN IF produced = {} THEN response = <<>>
       ELSE \E i \in produced : response = <<messages[i]>>

\* C36: save_articles leaves the entries of the saved-links list as they
\* are and in place: the list after the stage is the list before it
\* followed by the recommendations that have a URL which the list before
\* did not hold, in recommendation order; no other topic's list changes;
\* and the file is written only when an entry was added.
NewEntries(before, recommended) ==
  LET new == SelectSeq(recommended,
                       LAMBDA a : a.url # "" /\ a.url \notin UrlsOf(before))
  IN [i \in 1..Len(new) |-> Link(new[i].url, new[i].title)]
C36_Step ==
  (pc = "save" /\ pc' = "handback") =>
    LET slug == scout.topic_slug
        before == LinksOf(links, dirs, slug)
        new == NewEntries(before, scout.recommended)
    IN /\ links' = IF new = <<>> THEN links
                   ELSE [links EXCEPT ![slug] = before \o new]
       /\ "write" \in Range(trace') <=> new # <<>>
C36_SaveOnlyAppends == [][C36_Step]_vars

\* a list with a saved entry got one more entry behind it
C36_Witness ==
  /\ pc = "handback"
  /\ "write" \in Range(trace)
  /\ Len(links[scout.topic_slug]) >= 2
  /\ links[scout.topic_slug][1].url \in UrlsOf(scout.recommended)

\* C37: a turn that has been dispatched to a worker eventually ends with a
\* response or with a suspension, when every model call and every tool
\* call returns and no worker's own loop goes on forever.
C37_TurnEnds ==
  (pc = "agent") ~> (pc \in {"ret_response", "ret_interrupt"})


\* C38: with the topic list the calls of cycle work on (the list the object
\* holds, read from disk by the first call when the object held none), of
\* length n: the index is within -1..n-1 after every call; for n > 0 the
\* i-th call returns no selection when i is a multiple of n+1 and topic
\* (i mod (n+1)) - 1 otherwise, so every n+1 calls in a row return every
\* topic exactly once; for n = 0 every call returns no selection.
CycleList ==
  IF inner._topics # <<>> THEN inner._topics ELSE get_topic_slugs(dirs, topics)

C38_CycleOrder ==
  LET list == CycleList
      n == Len(list)
      k == Len(trace)
  IN /\ inner._index \in -1 .. n - 1
     /\ inner._index = IF n = 0 THEN -1 ELSE (k % (n + 1)) - 1
     /\ \A i \in 1..k :
          trace[i] = IF n = 0 \/ i % (n + 1) = 0 THEN Null
                     ELSE list[i % (n + 1)]
     /\ \A j \in 0 .. k - (n + 1) : \A t \in 1..n :
          Cardinality({i \in j + 1 .. j + n + 1 : trace[i] = list[t]}) = 1

\* two rounds over three topics: the fourth call went back to no selection
\* and the eighth call as well
C38_Witness ==
  /\ Len(inner._topics) = 3
  /\ Len(trace) >= 8
  /\ trace[3] = inner._topics[3]
  /\ trace[4] = Null
  /\ trace[5] = inner._topics[1]
  /\ trace[8] = Null
====
